---- MODULE Spec2Model ----
(***************************************************************************)
(* A model of watchducker's core: the batch image check of core.Checker    *)
(* (checkImages, extractImageReferences, one goroutine per unique image    *)
(* running ImageService.CheckUpdate) and the self-replacement protocol of  *)
(* core.SelfUpdater (selfUpdateContainer, createNewContainer).             *)
(*                                                                         *)
(* The container engine is the environment: every engine call may fail,    *)
(* and what it returns is chosen nondeterministically from small sets.     *)
(***************************************************************************)
EXTENDS Integers, Sequences, FiniteSets, TLC

VARIABLES
    \* ---- core.Checker.checkImages --------------------------------------
    containers,   \* the []ContainerInfo argument: the Image field of each
    pc,           \* position of the goroutine running checkImages
    idx,          \* loop index of extractImageReferences
    images,       \* extractImageReferences: images (unique, in first-seen order)
    skipped,      \* extractImageReferences: skipped
    unresolved,   \* indices of the containers whose reference failed resolution
    tasks,        \* one record per goroutine started by checkImages
    resultsChan,  \* buffered channel of *ImageCheckResult
    errChan,      \* buffered channel of error
    chanCap,      \* capacity of both channels: len(imageNames)
    closed,       \* TRUE once the closer goroutine has closed both channels
    result,       \* *types.BatchCheckResult under construction
    callbacks,    \* results the progress callback was invoked with, in order
    errors,       \* the errors slice drained from errChan
    retErr,       \* the error checkImages returns
    pulls,        \* engine: number of ImagePull calls, per reference
    localReads,   \* engine: number of ImageList calls of GetLocalHash, per reference
    \* ---- core.SelfUpdater.selfUpdateContainer --------------------------
    spc,          \* position inside selfUpdateContainer / createNewContainer
    engine,       \* engine: container id -> [exists, name, running, image, nets]
    cfg,          \* the inspected configuration of the self container
    simpleNet,    \* simpleNetworkConfig: the one endpoint used at creation
    toConnect,    \* networks the reconnect loop has still to connect
    newContainerID, \* what createNewContainer returned to selfUpdateContainer
    createdID,    \* id the engine gave the created container ("" if none)
    calls,        \* engine calls issued so far, in order, with their outcome
    selfErr,      \* the error selfUpdateContainer returns
    \* ---- cmd.RunChecker and core.Operator -------------------------------
    rpc,          \* position inside RunChecker / the operator
    noRestart,    \* cfg.NoRestart()
    cleanUp,      \* cfg.CleanUp()
    resolvedOf,   \* per listed container: what its reference resolved to ("" if not)
    batch,        \* the *types.BatchCheckResult the check returned
    checkErr,     \* the error the check returned: "" (nil), "ErrList" (the
                  \* listing failed, the result is nil) or "ErrCheck"
    imageUpdates, \* keys of the imageUpdates map
    containersToUpdate, \* indices (into batch.Containers) of containersToUpdate
    oi,           \* loop index of updateContainers
    docker,       \* engine: the listed containers and their replacements
    opCalls,      \* engine calls the run issued on containers (and the prune)
    opErrors,     \* updateContainers: errors
    opErr,        \* TRUE when UpdateContainersByBatchCheckResult returned an error
    reported,     \* TRUE once the final container list and summary were printed
    notified,     \* TRUE once notify.Send was called
    \* ---- pure functions applied to a drawn input -------------------------
    fnIn,         \* the arguments
    fnOut         \* the results, by the name of the function applied

checkVars == <<containers, pc, idx, images, skipped, unresolved, tasks, resultsChan, errChan,
               chanCap, closed, result, callbacks, errors, retErr, pulls, localReads>>
selfVars == <<spc, engine, cfg, simpleNet, toConnect, newContainerID, createdID,
              calls, selfErr>>
runVars == <<rpc, noRestart, cleanUp, resolvedOf, batch, checkErr, imageUpdates,
             containersToUpdate, oi, docker, opCalls, opErrors, opErr, reported,
             notified>>
fnVars == <<fnIn, fnOut>>
vars == <<checkVars, selfVars, runVars, fnVars>>

(***************************************************************************)
(* Bounds of the model.                                                    *)
(***************************************************************************)
MaxContainers == 3
MaxNetworks == 2

(***************************************************************************)
(* Image references and what the engine may answer.                        *)
(***************************************************************************)
AnonRef == "<none>:<none>"

\* The Image field a listed container may carry.
RawRefs == {"", "sha256:aaa", "nginx:latest"}

\* strings.HasPrefix(imageName, "sha256:") over the references of the model.
HasDigestPrefix(imageName) == imageName \in {"sha256:aaa", "sha256:bbb"}

\* RepoTags / RepoDigests of an inspected image.
TagLists == {<<>>, <<AnonRef>>, <<"nginx:latest">>, <<"", AnonRef, "nginx:latest">>}
DigestLists == {<<>>, <<"nginx@sha256:d1">>}

NoInspect == [err |-> TRUE, RepoTags |-> <<>>, RepoDigests |-> <<>>]
InspectResults ==
    {NoInspect} \cup [err : {FALSE}, RepoTags : TagLists, RepoDigests : DigestLists]

AllRefs == RawRefs \cup {"nginx@sha256:d1"}

\* Image IDs (content hashes) the engine may report.
Hashes == {"sha256:aaa", "sha256:bbb"}

\* Outcome of getImageList: an error, or the IDs of the matching images.
ListResults == {[err |-> TRUE, images |-> <<>>], [err |-> FALSE, images |-> <<>>]}
               \cup {[err |-> FALSE, images |-> <<h>>] : h \in Hashes}

(***************************************************************************)
(* ImageService.NormalizeReference. err = "" stands for a nil error.       *)
(***************************************************************************)
IsRealTag(tag) == tag # "" /\ tag # AnonRef

FirstRealTag(tags) ==
    LET good == {i \in 1..Len(tags) : IsRealTag(tags[i])}
    IN  tags[CHOOSE i \in good : \A j \in good : i <= j]

NormalizeReferenceAnyTag(imageName, inspect) ==
    IF imageName = "" THEN [ref |-> "", err |-> "ErrEmptyName"]
    ELSE IF HasDigestPrefix(imageName) \/ imageName = AnonRef THEN
        IF inspect.err THEN [ref |-> "", err |-> "ErrInspect"]
        ELSE IF Len(inspect.RepoTags) > 0
            THEN [ref |-> inspect.RepoTags[1], err |-> ""]
        ELSE IF Len(inspect.RepoDigests) > 0
            THEN [ref |-> inspect.RepoDigests[1], err |-> ""]
        ELSE [ref |-> "", err |-> "ErrNoTagOrDigest"]
    ELSE [ref |-> imageName, err |-> ""]

NormalizeReference(imageName, inspect) ==
    IF imageName = "" THEN [ref |-> "", err |-> "ErrEmptyName"]
    ELSE IF HasDigestPrefix(imageName) \/ imageName = AnonRef THEN
        IF inspect.err THEN [ref |-> "", err |-> "ErrInspect"]
        ELSE IF \E i \in 1..Len(inspect.RepoTags) : IsRealTag(inspect.RepoTags[i])
            THEN [ref |-> FirstRealTag(inspect.RepoTags), err |-> ""]
        ELSE IF Len(inspect.RepoDigests) > 0
            THEN [ref |-> inspect.RepoDigests[1], err |-> ""]
        ELSE [ref |-> "", err |-> "ErrNoTagOrDigest"]
    ELSE [ref |-> imageName, err |-> ""]

\* NormalizeReference asks the engine only for digest-form and anonymous references.
NeedsInspect(imageName) == HasDigestPrefix(imageName) \/ imageName = AnonRef

(***************************************************************************)
(* ImageService.GetLocalHash, GetRemoteHash, CheckUpdate.                  *)
(***************************************************************************)
\* A hash that was never asked for.
NotCalled == [hash |-> "", err |-> "NotCalled"]

GetLocalHash(list) ==
    IF list.err THEN [hash |-> "", err |-> "ErrImageList"]
    ELSE IF Len(list.images) = 0 THEN [hash |-> "", err |-> "ErrNotLocal"]
    ELSE [hash |-> list.images[1], err |-> ""]

\* pullOK: cli.ImagePull returned no error; list: the getImageList after the pull.
GetRemoteHash(pullOK, list) ==
    IF ~pullOK THEN [hash |-> "", err |-> "ErrPull"]
    ELSE IF list.err THEN [hash |-> "", err |-> "ErrImageList"]
    ELSE IF Len(list.images) = 0 THEN [hash |-> "", err |-> "ErrNotFoundAfterPull"]
    ELSE [hash |-> list.images[1], err |-> ""]

NewImageCheckResult(imageName) ==
    [Name |-> imageName, LocalHash |-> "", RemoteHash |-> "",
     IsUpdated |-> FALSE, Error |-> ""]

CheckUpdateOnAnyPull(imageName, local, remote) ==
    IF local.err # "" THEN
        [info |-> [NewImageCheckResult(imageName) EXCEPT
                      !.Error = "local: " \o local.err],
         err |-> local.err]
    ELSE IF remote.err # "" THEN
        [info |-> [NewImageCheckResult(imageName) EXCEPT
                      !.LocalHash = local.hash,
                      !.Error = "remote: " \o remote.err],
         err |-> remote.err]
    ELSE
        [info |-> [NewImageCheckResult(imageName) EXCEPT
                      !.LocalHash = local.hash,
                      !.RemoteHash = remote.hash,
                      !.IsUpdated = TRUE],
         err |-> ""]

CheckUpdateEager(imageName, local, remote) ==
    [info |-> [Name |-> imageName, LocalHash |-> local.hash,
               RemoteHash |-> remote.hash,
               IsUpdated |-> local.hash # remote.hash,
               Error |-> IF local.err # "" THEN "local: " \o local.err
                         ELSE IF remote.err # "" THEN "remote: " \o remote.err
                         ELSE ""],
     err |-> IF local.err # "" THEN local.err ELSE remote.err]

\* local, remote: what GetLocalHash and GetRemoteHash returned (remote is not
\* looked at when local failed: CheckUpdate returns before calling it).
CheckUpdate(imageName, local, remote) ==
    IF local.err # "" THEN
        [info |-> [NewImageCheckResult(imageName) EXCEPT
                      !.Error = "local: " \o local.err],
         err |-> local.err]
    ELSE IF remote.err # "" THEN
        [info |-> [NewImageCheckResult(imageName) EXCEPT
                      !.LocalHash = local.hash,
                      !.Error = "remote: " \o remote.err],
         err |-> remote.err]
    ELSE
        [info |-> [NewImageCheckResult(imageName) EXCEPT
                      !.LocalHash = local.hash,
                      !.RemoteHash = remote.hash,
                      !.IsUpdated = (local.hash # remote.hash)],
         err |-> ""]

(***************************************************************************)
(* Checker.extractImageReferences: one loop iteration.                     *)
(***************************************************************************)
SeqContains(seq, x) == \E i \in 1..Len(seq) : seq[i] = x

AddAlways(imgs, normalized) == Append(imgs, normalized)

\* The imageSet test and the append of one iteration.
AddUnique(imgs, normalized) ==
    IF SeqContains(imgs, normalized) THEN imgs ELSE Append(imgs, normalized)

SkippedResult(image, err) ==
    [NewImageCheckResult(image) EXCEPT !.Error = "resolve: " \o err]

ExtractOneKeepFailed(imgs, skp, image, n) ==
    IF n.err # ""
    THEN [images |-> AddUnique(imgs, image),
          skipped |-> Append(skp, SkippedResult(image, n.err))]
    ELSE [images |-> AddUnique(imgs, n.ref), skipped |-> skp]

\* The body of the loop: n is what NormalizeReference returned for image.
ExtractOne(imgs, skp, image, n) ==
    IF n.err # ""
    THEN [images |-> imgs, skipped |-> Append(skp, SkippedResult(image, n.err))]
    ELSE [images |-> AddUnique(imgs, n.ref), skipped |-> skp]

NilErr == [image |-> "", cause |-> ""]

NoSummary ==
    [TotalContainers |-> 0, TotalImages |-> 0, Updated |-> 0, UpToDate |-> 0,
     Failed |-> 0]

\* The entries up to and including the first failed one.
UntilFirstFailure(imgs) ==
    LET failed == {i \in 1..Len(imgs) : imgs[i].Error # ""} IN
    IF failed = {} THEN imgs
    ELSE SubSeq(imgs, 1, CHOOSE i \in failed : \A j \in failed : i <= j)

CountSummaryUntilFailure(imgs) ==
    LET part == UntilFirstFailure(imgs) IN
    [Failed   |-> Cardinality({i \in 1..Len(part) : part[i].Error # ""}),
     Updated  |-> Cardinality({i \in 1..Len(part) :
                     part[i].Error = "" /\ part[i].IsUpdated}),
     UpToDate |-> Cardinality({i \in 1..Len(part) :
                     part[i].Error = "" /\ ~part[i].IsUpdated})]

CountOnlyCheckedFailures(imgs) ==
    [Failed   |-> Cardinality({i \in 1..Len(imgs) :
                     imgs[i].Error # "" /\ imgs[i].LocalHash # ""}),
     Updated  |-> Cardinality({i \in 1..Len(imgs) :
                     imgs[i].Error = "" /\ imgs[i].IsUpdated}),
     UpToDate |-> Cardinality({i \in 1..Len(imgs) :
                     imgs[i].Error = "" /\ ~imgs[i].IsUpdated})]

\* The counting loop over result.Images.
CountSummary(imgs) ==
    [Failed   |-> Cardinality({i \in 1..Len(imgs) : imgs[i].Error # ""}),
     Updated  |-> Cardinality({i \in 1..Len(imgs) :
                     imgs[i].Error = "" /\ imgs[i].IsUpdated}),
     UpToDate |-> Cardinality({i \in 1..Len(imgs) :
                     imgs[i].Error = "" /\ ~imgs[i].IsUpdated})]

(***************************************************************************)
(* The self-updater is idle while a batch check is modelled.               *)
(***************************************************************************)
NoContainer == [exists |-> FALSE, name |-> "", running |-> FALSE, image |-> "",
                nets |-> {}]
NoCfg == [name |-> "", image |-> "", networks |-> {}, hostMode |-> FALSE]
ContainerIDs == {"old", "new"}

SelfIdle ==
    /\ spc = "idle"
    /\ engine = [id \in ContainerIDs |-> NoContainer]
    /\ cfg = NoCfg
    /\ simpleNet = {}
    /\ toConnect = {}
    /\ newContainerID = ""
    /\ createdID = ""
    /\ calls = <<>>
    /\ selfErr = ""

\* RunChecker and the operator are idle.
RunIdle ==
    /\ rpc = "idle"
    /\ noRestart = FALSE
    /\ cleanUp = FALSE
    /\ resolvedOf = <<>>
    /\ batch = [Containers |-> <<>>, Images |-> <<>>, Summary |-> NoSummary]
    /\ checkErr = ""
    /\ imageUpdates = {}
    /\ containersToUpdate = <<>>
    /\ oi = 1
    /\ docker = <<>>
    /\ opCalls = <<>>
    /\ opErrors = <<>>
    /\ opErr = FALSE
    /\ reported = FALSE
    /\ notified = FALSE

\* No pure function is being applied.
FnIdle ==
    /\ fnIn = <<>>
    /\ fnOut = <<>>

(***************************************************************************)
(* Checker.checkImages.                                                    *)
(***************************************************************************)
ContainerLists == UNION {[1..n -> RawRefs] : n \in 0..MaxContainers}

Init ==
    /\ containers \in ContainerLists
    /\ pc = "start"
    /\ idx = 1
    /\ images = <<>>
    /\ skipped = <<>>
    /\ unresolved = {}
    /\ tasks = <<>>
    /\ resultsChan = <<>>
    /\ errChan = <<>>
    /\ chanCap = 0
    /\ closed = FALSE
    /\ result = [Images |-> <<>>, Summary |-> NoSummary]
    /\ callbacks = <<>>
    /\ errors = <<>>
    /\ retErr = NilErr
    /\ pulls = [r \in AllRefs |-> 0]
    /\ localReads = [r \in AllRefs |-> 0]
    /\ SelfIdle
    /\ RunIdle
    /\ FnIdle

\* Lines 85-96: the result is allocated, the empty list returns at once.
CheckImagesBegin ==
    /\ pc = "start"
    /\ result' = [result EXCEPT !.Summary.TotalContainers = Len(containers)]
    /\ pc' = IF Len(containers) = 0 THEN "done" ELSE "extract"
    /\ UNCHANGED <<containers, unresolved, idx, images, skipped, tasks, resultsChan, errChan,
                   chanCap, closed, callbacks, errors, retErr, pulls, localReads>>
    /\ UNCHANGED <<selfVars, runVars, fnVars>>

\* One iteration of the loop of extractImageReferences.
ExtractStep ==
    /\ pc = "extract"
    /\ idx <= Len(containers)
    /\ \E inspect \in (IF NeedsInspect(containers[idx]) THEN InspectResults
                       ELSE {NoInspect}) :
          LET n == NormalizeReference(containers[idx], inspect)
              e == ExtractOne(images, skipped, containers[idx], n) IN
          /\ images' = e.images
          /\ skipped' = e.skipped
          /\ unresolved' = IF n.err # "" THEN unresolved \cup {idx} ELSE unresolved
    /\ idx' = idx + 1
    /\ UNCHANGED <<containers, pc, tasks, resultsChan, errChan, chanCap, closed,
                   result, callbacks, errors, retErr, pulls, localReads>>
    /\ UNCHANGED <<selfVars, runVars, fnVars>>

ChanCapOne(imageNames) == 1

\* Lines 110-111: both channels are buffered for len(imageNames) values.
ChanCap(imageNames) == Len(imageNames)

NewTask(name) ==
    [name |-> name, pc |-> "local", local |-> NotCalled, remote |-> NotCalled,
     out |-> [info |-> NewImageCheckResult(name), err |-> ""]]

\* Lines 99-139: the skipped results are recorded and reported, the channels
\* are made and one goroutine per unique image is started.
StartTasks ==
    /\ pc = "extract"
    /\ idx > Len(containers)
    /\ result' = [result EXCEPT !.Images = result.Images \o skipped,
                                !.Summary.TotalImages = Len(images) + Len(skipped)]
    /\ callbacks' = callbacks \o skipped
    /\ chanCap' = ChanCap(images)
    /\ tasks' = [n \in 1..Len(images) |-> NewTask(images[n])]
    /\ pc' = "collect"
    /\ UNCHANGED <<containers, unresolved, idx, images, skipped, resultsChan, errChan, closed,
                   errors, retErr, pulls, localReads>>
    /\ UNCHANGED <<selfVars, runVars, fnVars>>

\* Goroutine n, CheckUpdate: GetLocalHash.
TaskGetLocalHash(n) ==
    /\ tasks[n].pc = "local"
    /\ \E list \in ListResults :
          LET local == GetLocalHash(list) IN
          tasks' = [tasks EXCEPT
              ![n].local = local,
              ![n].out = IF local.err # ""
                         THEN CheckUpdate(tasks[n].name, local, NotCalled)
                         ELSE @,
              ![n].pc = IF local.err # "" THEN "senderr" ELSE "pull"]
    /\ localReads' = [localReads EXCEPT ![tasks[n].name] = @ + 1]
    /\ UNCHANGED <<containers, unresolved, pc, idx, images, skipped, resultsChan, errChan,
                   chanCap, closed, result, callbacks, errors, retErr, pulls>>
    /\ UNCHANGED <<selfVars, runVars, fnVars>>

\* Goroutine n, GetRemoteHash: cli.ImagePull.
TaskImagePull(n) ==
    /\ tasks[n].pc = "pull"
    /\ pulls' = [pulls EXCEPT ![tasks[n].name] = @ + 1]
    /\ \E pullOK \in BOOLEAN :
          IF pullOK
          THEN tasks' = [tasks EXCEPT ![n].pc = "relist"]
          ELSE LET remote == GetRemoteHash(FALSE, [err |-> TRUE, images |-> <<>>]) IN
               tasks' = [tasks EXCEPT
                   ![n].remote = remote,
                   ![n].out = CheckUpdate(tasks[n].name, tasks[n].local, remote),
                   ![n].pc = "senderr"]
    /\ UNCHANGED <<containers, unresolved, pc, idx, images, skipped, resultsChan, errChan,
                   chanCap, closed, result, callbacks, errors, retErr, localReads>>
    /\ UNCHANGED <<selfVars, runVars, fnVars>>

\* Goroutine n, GetRemoteHash: the image list read after the pull, and the
\* comparison of CheckUpdate.
TaskPostPullList(n) ==
    /\ tasks[n].pc = "relist"
    /\ \E list \in ListResults :
          LET remote == GetRemoteHash(TRUE, list)
              out    == CheckUpdate(tasks[n].name, tasks[n].local, remote) IN
          tasks' = [tasks EXCEPT
              ![n].remote = remote,
              ![n].out = out,
              ![n].pc = IF out.err # "" THEN "senderr" ELSE "sendres"]
    /\ UNCHANGED <<containers, unresolved, pc, idx, images, skipped, resultsChan, errChan,
                   chanCap, closed, result, callbacks, errors, retErr, pulls,
                   localReads>>
    /\ UNCHANGED <<selfVars, runVars, fnVars>>

ChanSendOverwrite(ch, v) == <<v>>

\* ch <- v on a buffered channel with room: v is queued behind what is pending.
ChanSend(ch, v) == Append(ch, v)

AfterSendErrReturn == "done"

\* Lines 125-127: after errChan <- err the goroutine still sends info.
AfterSendErr == "sendres"

\* Goroutine n, line 125: errChan <- err (blocks while the buffer is full).
TaskSendErr(n) ==
    /\ tasks[n].pc = "senderr"
    /\ Len(errChan) < chanCap
    /\ errChan' = ChanSend(errChan, [image |-> tasks[n].name, cause |-> tasks[n].out.err])
    /\ tasks' = [tasks EXCEPT ![n].pc = AfterSendErr]
    /\ UNCHANGED <<containers, unresolved, pc, idx, images, skipped, resultsChan, chanCap,
                   closed, result, callbacks, errors, retErr, pulls, localReads>>
    /\ UNCHANGED <<selfVars, runVars, fnVars>>

\* Goroutine n, lines 126/130: resultsChan <- info, then wg.Done().
TaskSendResult(n) ==
    /\ tasks[n].pc = "sendres"
    /\ Len(resultsChan) < chanCap
    /\ resultsChan' = ChanSend(resultsChan, tasks[n].out.info)
    /\ tasks' = [tasks EXCEPT ![n].pc = "done"]
    /\ UNCHANGED <<containers, unresolved, pc, idx, images, skipped, errChan, chanCap, closed,
                   result, callbacks, errors, retErr, pulls, localReads>>
    /\ UNCHANGED <<selfVars, runVars, fnVars>>

\* wg.Wait(): every goroutine has called wg.Done().
AllTasksDone(ts) == \A n \in 1..Len(ts) : ts[n].pc = "done"

\* Lines 135-139: wg.Wait() returns, both channels are closed.
CloseChannels ==
    /\ pc = "collect"
    /\ ~closed
    /\ AllTasksDone(tasks)
    /\ closed' = TRUE
    /\ UNCHANGED <<containers, unresolved, pc, idx, images, skipped, tasks, resultsChan,
                   errChan, chanCap, result, callbacks, errors, retErr, pulls,
                   localReads>>
    /\ UNCHANGED <<selfVars, runVars, fnVars>>

InvokeCallbackOnSuccess(cbs, info) ==
    IF info.Error # "" THEN cbs ELSE Append(cbs, info)

\* Lines 145-147: the registered callback is called with the result.
InvokeCallback(cbs, info) == Append(cbs, info)

\* Lines 142-148: one iteration of the range over resultsChan.
CollectResult ==
    /\ pc = "collect"
    /\ resultsChan # <<>>
    /\ result' = [result EXCEPT !.Images = Append(@, Head(resultsChan))]
    /\ callbacks' = InvokeCallback(callbacks, Head(resultsChan))
    /\ resultsChan' = Tail(resultsChan)
    /\ UNCHANGED <<containers, unresolved, pc, idx, images, skipped, tasks, errChan, chanCap,
                   closed, errors, retErr, pulls, localReads>>
    /\ UNCHANGED <<selfVars, runVars, fnVars>>

FirstError(errs) == IF Len(errs) > 0 THEN errs[1] ELSE NilErr

\* Lines 150-179: the range over resultsChan ends on the closed, drained
\* channel; errChan is drained, the summary counted, the first error returned.
Summarize ==
    /\ pc = "collect"
    /\ resultsChan = <<>>
    /\ closed
    /\ errors' = errChan
    /\ errChan' = <<>>
    /\ LET c == CountSummary(result.Images) IN
       result' = [result EXCEPT !.Summary.Failed = c.Failed,
                                !.Summary.Updated = c.Updated,
                                !.Summary.UpToDate = c.UpToDate]
    /\ retErr' = FirstError(errChan)
    /\ pc' = "done"
    /\ UNCHANGED <<containers, unresolved, idx, images, skipped, tasks, resultsChan, chanCap,
                   closed, callbacks, pulls, localReads>>
    /\ UNCHANGED <<selfVars, runVars, fnVars>>

Next ==
    \/ CheckImagesBegin
    \/ ExtractStep
    \/ StartTasks
    \/ \E n \in 1..Len(tasks) : TaskGetLocalHash(n)
    \/ \E n \in 1..Len(tasks) : TaskImagePull(n)
    \/ \E n \in 1..Len(tasks) : TaskPostPullList(n)
    \/ \E n \in 1..Len(tasks) : TaskSendErr(n)
    \/ \E n \in 1..Len(tasks) : TaskSendResult(n)
    \/ CloseChannels
    \/ CollectResult
    \/ Summarize

Spec == Init /\ [][Next]_vars

\* The batch check under a scheduler that keeps running some goroutine that
\* can take a step; every engine call returns (each is one step).
MaxFairContainers == 2

FairInit == Init /\ Len(containers) <= MaxFairContainers

FairSpec == FairInit /\ [][Next]_vars /\ WF_vars(Next)

(***************************************************************************)
(* The container engine as the self-updater uses it. Each operator is one  *)
(* ContainerService call: ok says whether the engine itself answers        *)
(* without error; a call that fails changes nothing. Container names are   *)
(* unique in the engine, which is why selfUpdateContainer renames the old  *)
(* container away before it creates the new one under the original name.   *)
(***************************************************************************)
NameInUse(eng, name, except) ==
    \E id \in ContainerIDs \ {except} : eng[id].exists /\ eng[id].name = name

RenameContainer(eng, id, newName, ok) ==
    LET done == ok /\ eng[id].exists /\ ~NameInUse(eng, newName, id)
    IN  [engine |-> IF done THEN [eng EXCEPT ![id].name = newName] ELSE eng,
         ok |-> done]

CreateContainer(eng, name, image, nets, ok) ==
    LET done == ok /\ ~eng["new"].exists /\ ~NameInUse(eng, name, "new")
    IN  [engine |-> IF done
                    THEN [eng EXCEPT !["new"] =
                            [exists |-> TRUE, name |-> name, running |-> FALSE,
                             image |-> image, nets |-> nets]]
                    ELSE eng,
         id |-> IF done THEN "new" ELSE "",
         ok |-> done]

NetworkDisconnect(eng, net, id, ok) ==
    LET done == ok /\ eng[id].exists
    IN  [engine |-> IF done THEN [eng EXCEPT ![id].nets = @ \ {net}] ELSE eng,
         ok |-> done]

NetworkConnect(eng, net, id, ok) ==
    LET done == ok /\ eng[id].exists
    IN  [engine |-> IF done THEN [eng EXCEPT ![id].nets = @ \cup {net}] ELSE eng,
         ok |-> done]

StartContainer(eng, id, ok) ==
    LET done == ok /\ eng[id].exists
    IN  [engine |-> IF done THEN [eng EXCEPT ![id].running = TRUE] ELSE eng,
         ok |-> done]

StopContainer(eng, id, ok) ==
    LET done == ok /\ eng[id].exists
    IN  [engine |-> IF done THEN [eng EXCEPT ![id].running = FALSE] ELSE eng,
         ok |-> done]

RemoveContainer(eng, id, ok) ==
    LET done == ok /\ eng[id].exists
    IN  [engine |-> IF done THEN [eng EXCEPT ![id] = NoContainer] ELSE eng,
         ok |-> done]

Call(op, id, name, net, ok) ==
    [op |-> op, id |-> id, name |-> name, net |-> net, ok |-> ok]

(***************************************************************************)
(* SelfUpdater.selfUpdateContainer and createNewContainer.                 *)
(***************************************************************************)
OriginalName == "watchducker"
SelfImage == "naomi233/watchducker:latest"
HostNet == 0

\* containerInfo.Name + "_" + utils.GenerateRandomString(8)
OldContainerNewName(name) == name \o "_a1b2c3d4"

\* The batch check is idle while a self-update is modelled.
CheckIdle ==
    /\ containers = <<>>
    /\ pc = "idle"
    /\ idx = 1
    /\ images = <<>>
    /\ skipped = <<>>
    /\ unresolved = {}
    /\ tasks = <<>>
    /\ resultsChan = <<>>
    /\ errChan = <<>>
    /\ chanCap = 0
    /\ closed = FALSE
    /\ result = [Images |-> <<>>, Summary |-> NoSummary]
    /\ callbacks = <<>>
    /\ errors = <<>>
    /\ retErr = NilErr
    /\ pulls = [r \in AllRefs |-> 0]
    /\ localReads = [r \in AllRefs |-> 0]

\* The self container as SelfUpdate found and inspected it: running, under
\* its original name, on the host network or on some user networks.
SelfConfigs ==
    {[name |-> OriginalName, image |-> SelfImage, networks |-> {HostNet},
      hostMode |-> TRUE]}
    \cup {[name |-> OriginalName, image |-> SelfImage, networks |-> N,
           hostMode |-> FALSE] : N \in (SUBSET (1..MaxNetworks)) \ {{}}}

SelfInit ==
    /\ CheckIdle
    /\ RunIdle
    /\ FnIdle
    /\ cfg \in SelfConfigs
    /\ engine = [id \in ContainerIDs |->
                   IF id = "old"
                   THEN [exists |-> TRUE, name |-> cfg.name, running |-> TRUE,
                         image |-> cfg.image, nets |-> cfg.networks]
                   ELSE NoContainer]
    /\ spc = "rename"
    /\ simpleNet = {}
    /\ toConnect = {}
    /\ newContainerID = ""
    /\ createdID = ""
    /\ calls = <<>>
    /\ selfErr = ""

\* Lines 115-119: rename the old container (it keeps running).
SelfRenameOld ==
    /\ spc = "rename"
    /\ \E ok \in BOOLEAN :
          LET r == RenameContainer(engine, "old", OldContainerNewName(cfg.name), ok) IN
          /\ engine' = r.engine
          /\ calls' = Append(calls, Call("rename", "old",
                                         OldContainerNewName(cfg.name), -1, r.ok))
          /\ spc' = IF r.ok THEN "create" ELSE "returned"
          /\ selfErr' = IF r.ok THEN "" ELSE "ErrRename"
    /\ UNCHANGED <<cfg, simpleNet, toConnect, newContainerID, createdID>>
    /\ UNCHANGED <<checkVars, runVars, fnVars>>

SimpleNetworkConfigsAll(networks) == {networks}

\* simpleNetworkConfig: the first endpoint the map iteration yields.
SimpleNetworkConfigs(networks) ==
    IF networks = {} THEN {{}} ELSE {{k} : k \in networks}

AfterCreateStartAtOnce(hostMode, simple) == "start"

\* Line 181: the networks are rearranged unless the container uses host networking.
AfterCreate(hostMode, simple) ==
    IF ~hostMode /\ simple # {} THEN "disconnect" ELSE "start"

\* Lines 160-178: createNewContainer up to CreateContainer.
SelfCreate ==
    /\ spc = "create"
    /\ \E simple \in SimpleNetworkConfigs(cfg.networks), ok \in BOOLEAN :
          LET r == CreateContainer(engine, cfg.name, cfg.image, simple, ok)
              next == AfterCreate(cfg.hostMode, simple) IN
          /\ engine' = r.engine
          /\ simpleNet' = simple
          /\ createdID' = r.id
          /\ calls' = Append(calls, Call("create", r.id, cfg.name, -1, r.ok))
          /\ spc' = IF r.ok THEN next ELSE "rollbackCreate"
          /\ newContainerID' = IF r.ok /\ next = "start" THEN r.id ELSE ""
    /\ UNCHANGED <<cfg, toConnect, selfErr>>
    /\ UNCHANGED <<checkVars, runVars, fnVars>>

\* Lines 182-187: disconnect the network the container was created on.
SelfDisconnect ==
    /\ spc = "disconnect"
    /\ \E k \in simpleNet, ok \in BOOLEAN :
          LET r == NetworkDisconnect(engine, k, createdID, ok) IN
          /\ engine' = r.engine
          /\ calls' = Append(calls, Call("disconnect", createdID, "", k, r.ok))
          /\ spc' = IF r.ok THEN "connect" ELSE "rollbackCreate"
          /\ toConnect' = IF r.ok THEN cfg.networks ELSE {}
    /\ UNCHANGED <<cfg, simpleNet, newContainerID, createdID, selfErr>>
    /\ UNCHANGED <<checkVars, runVars, fnVars>>

\* Lines 189-197: one iteration of the reconnect loop; after the last one
\* createNewContainer returns the new container's id.
SelfConnect ==
    /\ spc = "connect"
    /\ \E k \in toConnect, ok \in BOOLEAN :
          LET r == NetworkConnect(engine, k, createdID, ok)
              last == toConnect = {k} IN
          /\ engine' = r.engine
          /\ calls' = Append(calls, Call("connect", createdID, "", k, r.ok))
          /\ toConnect' = IF r.ok THEN toConnect \ {k} ELSE {}
          /\ spc' = IF ~r.ok THEN "rollbackCreate"
                    ELSE IF last THEN "start" ELSE "connect"
          /\ newContainerID' = IF r.ok /\ last THEN createdID ELSE ""
    /\ UNCHANGED <<cfg, simpleNet, createdID, selfErr>>
    /\ UNCHANGED <<checkVars, runVars, fnVars>>

RollbackNameTemp(info) == OldContainerNewName(info.name)

\* Lines 126 and 132: the name the rollback renames the old container to.
RollbackName(info) == info.name

\* Lines 124-128: createNewContainer failed; the old name is restored (the
\* rename's own error is dropped) and the error returned.
SelfRollbackCreate ==
    /\ spc = "rollbackCreate"
    /\ \E ok \in BOOLEAN :
          LET r == RenameContainer(engine, "old", RollbackName(cfg), ok) IN
          /\ engine' = r.engine
          /\ calls' = Append(calls, Call("rename", "old", RollbackName(cfg), -1, r.ok))
    /\ selfErr' = "ErrCreate"
    /\ spc' = "returned"
    /\ UNCHANGED <<cfg, simpleNet, toConnect, newContainerID, createdID>>
    /\ UNCHANGED <<checkVars, runVars, fnVars>>

AfterStartIgnoreError(startOK) == "stop"

\* Lines 130-137: only a started new container lets the old one be stopped.
AfterStart(startOK) == IF startOK THEN "stop" ELSE "rollbackStartRename"

\* Line 130: start the new container.
SelfStart ==
    /\ spc = "start"
    /\ \E ok \in BOOLEAN :
          LET r == StartContainer(engine, newContainerID, ok) IN
          /\ engine' = r.engine
          /\ calls' = Append(calls, Call("start", newContainerID, "", -1, r.ok))
          /\ spc' = AfterStart(r.ok)
    /\ UNCHANGED <<cfg, simpleNet, toConnect, newContainerID, createdID, selfErr>>
    /\ UNCHANGED <<checkVars, runVars, fnVars>>

AfterRollbackRenameStrict(renameOK) ==
    IF renameOK THEN "rollbackStartRemove" ELSE "returned"

\* Lines 132-133: whatever the rename back answered, the removal follows.
AfterRollbackRename(renameOK) == "rollbackStartRemove"

\* Line 132: start failed; first the old name is restored (error dropped).
SelfRollbackStartRename ==
    /\ spc = "rollbackStartRename"
    /\ \E ok \in BOOLEAN :
          LET r == RenameContainer(engine, "old", RollbackName(cfg), ok) IN
          /\ engine' = r.engine
          /\ calls' = Append(calls, Call("rename", "old", RollbackName(cfg), -1, r.ok))
          /\ spc' = AfterRollbackRename(r.ok)
    /\ UNCHANGED <<cfg, simpleNet, toConnect, newContainerID, createdID, selfErr>>
    /\ UNCHANGED <<checkVars, runVars, fnVars>>

\* Lines 133-134: then the new container is removed (error dropped) and the
\* start error returned.
SelfRollbackStartRemove ==
    /\ spc = "rollbackStartRemove"
    /\ \E ok \in BOOLEAN :
          LET r == RemoveContainer(engine, newContainerID, ok) IN
          /\ engine' = r.engine
          /\ calls' = Append(calls, Call("remove", newContainerID, "", -1, r.ok))
    /\ selfErr' = "ErrStart"
    /\ spc' = "returned"
    /\ UNCHANGED <<cfg, simpleNet, toConnect, newContainerID, createdID>>
    /\ UNCHANGED <<checkVars, runVars, fnVars>>

AfterStopStrict(stopOK) == IF stopOK THEN "remove" ELSE "returned"

\* Lines 142-145: a failed stop is only logged, the removal is still tried.
AfterStop(stopOK) == "remove"

\* Lines 147-154: a failed removal is only logged, nil is returned.
OldCleanupError(removeOK) == ""

\* Lines 139-145: stop the old container (30 s timeout).
SelfStopOld ==
    /\ spc = "stop"
    /\ \E ok \in BOOLEAN :
          LET r == StopContainer(engine, "old", ok) IN
          /\ engine' = r.engine
          /\ calls' = Append(calls, Call("stop", "old", "", -1, r.ok))
          /\ spc' = AfterStop(r.ok)
          /\ selfErr' = IF AfterStop(r.ok) = "returned" THEN "ErrStopOld" ELSE selfErr
    /\ UNCHANGED <<cfg, simpleNet, toConnect, newContainerID, createdID>>
    /\ UNCHANGED <<checkVars, runVars, fnVars>>

\* Lines 147-154: remove the old container (force), return nil.
SelfRemoveOld ==
    /\ spc = "remove"
    /\ \E ok \in BOOLEAN :
          LET r == RemoveContainer(engine, "old", ok) IN
          /\ engine' = r.engine
          /\ calls' = Append(calls, Call("remove", "old", "", -1, r.ok))
          /\ selfErr' = OldCleanupError(r.ok)
    /\ spc' = "returned"
    /\ UNCHANGED <<cfg, simpleNet, toConnect, newContainerID, createdID>>
    /\ UNCHANGED <<checkVars, runVars, fnVars>>

SelfNext ==
    \/ SelfRenameOld
    \/ SelfCreate
    \/ SelfDisconnect
    \/ SelfConnect
    \/ SelfRollbackCreate
    \/ SelfStart
    \/ SelfRollbackStartRename
    \/ SelfRollbackStartRemove
    \/ SelfStopOld
    \/ SelfRemoveOld

SelfSpec == SelfInit /\ [][SelfNext]_vars

(***************************************************************************)
(* Properties of the batch check.                                          *)
(***************************************************************************)
RECURSIVE SumOver(_, _)
SumOver(f, S) ==
    IF S = {} THEN 0
    ELSE LET x == CHOOSE y \in S : TRUE IN f[x] + SumOver(f, S \ {x})

TotalPulls == SumOver(pulls, AllRefs)

\* The distinct resolved references of the batch (K of them).
DistinctResolved == {images[i] : i \in 1..Len(images)}

\* The goroutine of reference r has read the local hash without error.
LocalHashRead(r) ==
    \E n \in 1..Len(tasks) : tasks[n].name = r /\ tasks[n].local.err = ""

\* CheckUpdate has returned in goroutine n.
Returned(n) == tasks[n].pc \in {"senderr", "sendres", "done"}

\* C1 (as stated): when the batch check has returned, exactly K pulls were
\* issued, K being the number of distinct resolved references.
C1_ExactlyKPulls ==
    pc = "done" => TotalPulls = Cardinality(DistinctResolved)

\* C1 (amended): at every moment each reference has been pulled at most once
\* and only if it is a distinct resolved reference of the batch, so never
\* more than K pulls are issued; when the batch check has returned, a
\* resolved reference was pulled exactly once if its local hash was read
\* without error, and was not pulled at all otherwise.
C1_AtMostOnePullPerResolved ==
    /\ \A r \in AllRefs :
          /\ pulls[r] <= 1
          /\ pulls[r] = 1 => r \in DistinctResolved
    /\ TotalPulls <= Cardinality(DistinctResolved)
    /\ Cardinality(DistinctResolved) <= Len(containers) - Cardinality(unresolved)
    /\ pc = "done" =>
          \A r \in DistinctResolved : (pulls[r] = 1) <=> LocalHashRead(r)

C1_Witness ==
    /\ pc = "done"
    /\ Len(containers) = 3
    /\ unresolved = {}
    /\ Cardinality(DistinctResolved) = 2
    /\ TotalPulls = 2

\* C2: when the batch check has returned, updated + up-to-date + failed equals
\* the number of ImageCheckResults and the total-images count; the failed
\* count is the number of unresolvable containers plus the number of failed
\* checks; the empty container list gives an all-zero summary.
C2_SummaryAddsUp ==
    pc = "done" =>
        LET s == result.Summary
            failedChecks  == {n \in 1..Len(tasks) : tasks[n].out.err # ""}
            updatedChecks == {n \in 1..Len(tasks) :
                                 /\ tasks[n].out.err = ""
                                 /\ tasks[n].local.hash # tasks[n].remote.hash}
        IN  /\ s.Updated + s.UpToDate + s.Failed = Len(result.Images)
            /\ s.TotalImages = Len(result.Images)
            /\ s.Failed = Cardinality(unresolved) + Cardinality(failedChecks)
            /\ s.Updated = Cardinality(updatedChecks)
            /\ Len(containers) = 0 =>
                  s.TotalImages = 0 /\ s.Failed = 0 /\ result.Images = <<>>

C2_Witness ==
    /\ pc = "done"
    /\ result.Summary.Updated = 1
    /\ result.Summary.UpToDate = 1
    /\ result.Summary.Failed = 1
    /\ unresolved # {}

\* C3: once CheckUpdate has returned, updated is true exactly when the local
\* hash and the post-pull hash were both obtained without error and differ;
\* when either was not obtained the result carries an error, CheckUpdate
\* returns an error and updated is false.
C3_UpdatedIffHashesDiffer ==
    \A n \in 1..Len(tasks) :
        Returned(n) =>
            LET t == tasks[n]
                both == t.local.err = "" /\ t.remote.err = ""
            IN  /\ t.out.info.IsUpdated <=> (both /\ t.local.hash # t.remote.hash)
                /\ ~both => /\ t.out.info.Error # ""
                            /\ t.out.err # ""
                            /\ ~t.out.info.IsUpdated
                /\ both => t.out.info.Error = "" /\ t.out.err = ""

C3_Witness ==
    \E n, m \in 1..Len(tasks) :
        /\ tasks[n].pc = "done" /\ tasks[m].pc = "done"
        /\ tasks[n].local.hash = "sha256:aaa" /\ tasks[n].remote.hash = "sha256:bbb"
        /\ tasks[n].out.info.IsUpdated
        /\ tasks[m].local.hash = "sha256:aaa" /\ tasks[m].remote.hash = "sha256:aaa"
        /\ tasks[m].out.err = "" /\ ~tasks[m].out.info.IsUpdated

\* An image of the batch failed: its ImageCheckResult carries an error.
SomeImageFailed == \E i \in 1..Len(result.Images) : result.Images[i].Error # ""

\* C4: when the batch check has returned, the returned error is non-nil if
\* and only if some ImageCheckResult carries an error, it is the first error
\* sent, and the result holds one ImageCheckResult per image of the batch.
C4_ErrorIffSomeImageFailed ==
    pc = "done" =>
        /\ SomeImageFailed <=> retErr # NilErr
        /\ retErr = FirstError(errors)
        /\ Len(result.Images) = result.Summary.TotalImages

\* C5: when the batch check has returned, every distinct resolved reference
\* had its check started and has exactly one ImageCheckResult in the
\* aggregate result, whatever the outcome of the other checks.
C5_EveryCheckDelivered ==
    pc = "done" =>
        \A r \in DistinctResolved :
            /\ localReads[r] = 1
            /\ Cardinality({i \in 1..Len(result.Images) :
                               result.Images[i].Name = r}) = 1
            /\ \E n \in 1..Len(tasks) :
                  /\ tasks[n].name = r
                  /\ tasks[n].pc = "done"
                  /\ SeqContains(result.Images, tasks[n].out.info)

C5_Witness ==
    /\ pc = "done"
    /\ \E n, m \in 1..Len(tasks) :
          /\ tasks[n].out.err # ""
          /\ tasks[m].out.err = ""
          /\ SeqContains(result.Images, tasks[n].out.info)
          /\ SeqContains(result.Images, tasks[m].out.info)

\* C6: a container whose reference failed resolution has an error-only
\* ImageCheckResult among the skipped results, which enter the aggregate
\* result before any check is started; it is counted in TotalContainers; its
\* reference is not in the unique-image set; and no local-hash read and no
\* pull is issued for its reference.
C6_UnresolvedSkipped ==
    /\ Len(skipped) = Cardinality(unresolved)
    /\ pc # "start" => result.Summary.TotalContainers = Len(containers)
    /\ pc \in {"collect", "done"} /\ Len(containers) > 0 =>
          SubSeq(result.Images, 1, Len(skipped)) = skipped
    /\ \A i \in unresolved :
          /\ \E k \in 1..Len(skipped) :
                /\ skipped[k].Name = containers[i]
                /\ skipped[k].Error # ""
                /\ ~skipped[k].IsUpdated
                /\ skipped[k].LocalHash = "" /\ skipped[k].RemoteHash = ""
          /\ containers[i] \notin DistinctResolved
          /\ pulls[containers[i]] = 0
          /\ localReads[containers[i]] = 0
    /\ Len(images) <= (idx - 1) - Cardinality(unresolved)

C6_Witness ==
    /\ pc = "done"
    /\ \E i, j \in 1..Len(containers) :
          /\ i \in unresolved
          /\ j \notin unresolved
          /\ containers[i] = containers[j]
    /\ TotalPulls >= 1

(***************************************************************************)
(* Properties of the self-replacement protocol.                            *)
(***************************************************************************)
LastCall == calls[Len(calls)]

CallFailed(ops) == \E i \in 1..Len(calls) : calls[i].op \in ops /\ ~calls[i].ok
CallSucceeded(ops) == \E i \in 1..Len(calls) : calls[i].op \in ops /\ calls[i].ok

\* The CreateContainer call of createNewContainer failed.
CreateFailed == CallFailed({"create"})
\* The disconnect/reconnect sequence failed (the container had been created).
ReconnectFailed == CallFailed({"disconnect", "connect"})
StartFailed == CallFailed({"start"})
StartSucceeded == CallSucceeded({"start"})

\* C7 (as stated): when selfUpdateContainer has returned after a failed
\* container creation, the old container bears its original name again, no
\* new container exists and an error is returned.
C7_CreateFailureRestoresName ==
    spc = "returned" /\ CreateFailed =>
        /\ engine["old"].name = cfg.name
        /\ ~engine["new"].exists
        /\ selfErr # ""

\* C7 (amended): when selfUpdateContainer has returned after a failed
\* container creation, its last engine call was the rename of the old
\* container back to its original name; the old container bears the original
\* name if that rename succeeded and the temporary name if it failed (the
\* failure is dropped); no new container exists, the old container still
\* runs, and the creation error is returned.
C7_CreateFailureAttemptsRestore ==
    spc = "returned" /\ CreateFailed =>
        /\ LastCall.op = "rename" /\ LastCall.id = "old" /\ LastCall.name = cfg.name
        /\ engine["old"].name = IF LastCall.ok THEN cfg.name
                                ELSE OldContainerNewName(cfg.name)
        /\ ~engine["new"].exists
        /\ engine["old"].exists /\ engine["old"].running
        /\ selfErr = "ErrCreate"

C7_Witness ==
    /\ spc = "returned"
    /\ CreateFailed
    /\ engine["old"].name = cfg.name
    /\ selfErr = "ErrCreate"

\* C8: when selfUpdateContainer has returned after a failure of the network
\* disconnect/reconnect sequence, the old container bears its original name
\* again, an error is returned and no replacement container is left in the
\* engine.
C8_ReconnectFailureLeavesNothing ==
    spc = "returned" /\ ReconnectFailed =>
        /\ engine["old"].name = cfg.name
        /\ selfErr # ""
        /\ ~engine["new"].exists

\* C9: when selfUpdateContainer has returned after a failed start of the new
\* container, the old container bears its original name again, the new
\* container has been removed, an error is returned, and the old container
\* was neither stopped nor removed.
C9_StartFailureRollsBack ==
    spc = "returned" /\ StartFailed =>
        /\ engine["old"].name = cfg.name
        /\ ~engine["new"].exists
        /\ selfErr # ""
        /\ engine["old"].exists /\ engine["old"].running
        /\ \A i \in 1..Len(calls) :
              calls[i].id = "old" => calls[i].op \notin {"stop", "remove"}

\* C10: once the new container has been started, selfUpdateContainer never
\* carries an error; when it has returned it reports success whatever the
\* stop and the removal of the old container answered, and its last two
\* engine calls are the stop and then the removal of the old container.
C10_CleanupFailureStillSuccess ==
    StartSucceeded =>
        /\ selfErr = ""
        /\ spc \in {"stop", "remove", "returned"}
        /\ spc = "returned" =>
              /\ calls[Len(calls) - 1].op = "stop" /\ calls[Len(calls) - 1].id = "old"
              /\ LastCall.op = "remove" /\ LastCall.id = "old"

C10_Witness ==
    /\ spc = "returned"
    /\ StartSucceeded
    /\ CallFailed({"stop"})
    /\ CallFailed({"remove"})
    /\ selfErr = ""
    /\ engine["old"].exists


\* C11: at every moment of the self-replacement an orchestrator container is
\* running; as long as the new container has not been started successfully
\* the old container exists and is running, and no stop or remove call has
\* been issued for it; the first engine call is the rename of the old
\* container, which leaves it running.
C11_AlwaysOneRunning ==
    /\ engine["old"].running \/ engine["new"].running
    /\ ~StartSucceeded =>
          /\ engine["old"].exists /\ engine["old"].running
          /\ \A i \in 1..Len(calls) :
                calls[i].id = "old" => calls[i].op \notin {"stop", "remove"}
    /\ Len(calls) >= 1 => calls[1].op = "rename" /\ calls[1].id = "old"
    /\ \A i \in 1..Len(calls) :
          calls[i].op \in {"stop", "remove"} /\ calls[i].id = "old" =>
              \E j \in 1..(i - 1) : calls[j].op = "start" /\ calls[j].ok

C11_Witness ==
    /\ spc = "returned"
    /\ StartSucceeded
    /\ ~engine["old"].exists
    /\ engine["new"].running
    /\ engine["new"].name = cfg.name


(***************************************************************************)
(* cmd.RunChecker: one run of the program.  The batch check is taken as    *)
(* one step that applies extractImageReferences, CheckUpdate and the       *)
(* summary count to engine answers drawn here; the replacement of the      *)
(* containers by core.Operator is modelled call by call.                   *)
(***************************************************************************)
MaxRunContainers == 2

StopTimeoutSeconds == 30

\* What NormalizeReference can answer for a container's image reference.
Resolutions(image) == {NormalizeReference(image, insp) : insp \in InspectResults}

RefResults == UNION {Resolutions(r) : r \in RawRefs}

\* Engine answers for one image check: the local listing, the pull, the
\* listing after the pull.
CheckAnswers ==
    [list : {[err |-> TRUE, images |-> <<>>], [err |-> FALSE, images |-> <<"sha256:aaa">>]},
     pullOK : BOOLEAN,
     after : {[err |-> FALSE, images |-> <<h>>] : h \in Hashes}]

RECURSIVE ExtractAll(_, _, _)
\* extractImageReferences: the loop over the containers, from index i on.
ExtractAll(cs, ns, i) ==
    IF i = 0 THEN [images |-> <<>>, skipped |-> <<>>]
    ELSE LET prev == ExtractAll(cs, ns, i - 1)
         IN  ExtractOne(prev.images, prev.skipped, cs[i].Image, ns[i])

\* checkImages on the listed containers: ns[i] is the resolution of container
\* i's reference, ans[r] the engine's answers while r is checked.  The image
\* results follow the skipped ones; their order among themselves is the
\* arrival order, which neither the count nor the operator's map depends on.
CheckImages(cs, ns, ans) ==
    LET ex   == ExtractAll(cs, ns, Len(cs))
        chk  == [k \in 1..Len(ex.images) |->
                   CheckUpdate(ex.images[k],
                               GetLocalHash(ans[ex.images[k]].list),
                               GetRemoteHash(ans[ex.images[k]].pullOK,
                                             ans[ex.images[k]].after))]
        imgs == ex.skipped \o [k \in 1..Len(ex.images) |-> chk[k].info]
        c    == CountSummary(imgs)
    IN  [result |-> [Containers |-> cs,
                     Images |-> imgs,
                     Summary |-> [TotalContainers |-> Len(cs),
                                  TotalImages |-> Len(imgs),
                                  Updated |-> c.Updated, UpToDate |-> c.UpToDate,
                                  Failed |-> c.Failed]],
         err |-> IF \E k \in 1..Len(ex.images) : chk[k].err # ""
                 THEN "ErrCheck" ELSE ""]

\* The engine's view of one listed container and of its replacement.
RunContainer(image) ==
    [image |-> image, old |-> "running", new |-> "none", newImage |-> ""]

RunInit ==
    /\ CheckIdle
    /\ SelfIdle
    /\ FnIdle
    /\ rpc = "check"
    /\ noRestart \in BOOLEAN
    /\ cleanUp \in BOOLEAN
    /\ \E n \in 0..MaxRunContainers :
          docker \in [1..n -> {RunContainer(r) : r \in RawRefs}]
    /\ resolvedOf = <<>>
    /\ batch = [Containers |-> <<>>, Images |-> <<>>, Summary |-> NoSummary]
    /\ checkErr = ""
    /\ imageUpdates = {}
    /\ containersToUpdate = <<>>
    /\ oi = 1
    /\ opCalls = <<>>
    /\ opErrors = <<>>
    /\ opErr = FALSE
    /\ reported = FALSE
    /\ notified = FALSE

\* ContainerInfo of the i-th listed container (createContainerInfo).
ContainerInfo(i, c) == [ID |-> i, Name |-> i, Image |-> c.image]

\* cmd.go 99-106: the check function.  listOK = FALSE: the container listing
\* failed, the result is nil and RunChecker returns.
RunCheck ==
    /\ rpc = "check"
    /\ \E listOK \in BOOLEAN :
       \E ns \in [1..Len(docker) -> RefResults] :
          /\ \A i \in 1..Len(docker) : ns[i] \in Resolutions(docker[i].image)
          /\ \E ans \in [{ns[i].ref : i \in 1..Len(docker)} \ {""} -> CheckAnswers] :
                LET cs == [i \in 1..Len(docker) |-> ContainerInfo(i, docker[i])]
                    r  == CheckImages(cs, ns, ans)
                IN  IF listOK
                    THEN /\ batch' = r.result
                         /\ checkErr' = r.err
                         /\ resolvedOf' = [i \in 1..Len(docker) |-> ns[i].ref]
                         /\ rpc' = "decide"
                    ELSE /\ checkErr' = "ErrList"
                         /\ rpc' = "exit"
                         /\ UNCHANGED <<batch, resolvedOf>>
    /\ UNCHANGED <<noRestart, cleanUp, imageUpdates, containersToUpdate, oi, docker,
                   opCalls, opErrors, opErr, reported, notified>>
    /\ UNCHANGED <<checkVars, selfVars, fnVars>>

RestartNever(no, updated) == "report"

RestartAlways(no, updated) == "opBegin"

\* cmd.go 108: the operator runs unless no-restart is set or nothing is updated.
AfterCheck(no, updated) == IF ~no /\ updated > 0 THEN "opBegin" ELSE "report"

RunDecide ==
    /\ rpc = "decide"
    /\ rpc' = AfterCheck(noRestart, batch.Summary.Updated)
    /\ UNCHANGED <<noRestart, cleanUp, resolvedOf, batch, checkErr, imageUpdates,
                   containersToUpdate, oi, docker, opCalls, opErrors, opErr,
                   reported, notified>>
    /\ UNCHANGED <<checkVars, selfVars, fnVars>>


(***************************************************************************)
(* core.Operator.                                                          *)
(***************************************************************************)
ImageUpdatesOfAllResults(imgs) == {imgs[k].Name : k \in 1..Len(imgs)}

\* Lines 150-155: the keys of imageUpdates.
ImageUpdates(imgs) ==
    {imgs[k].Name : k \in {j \in 1..Len(imgs) : imgs[j].IsUpdated /\ imgs[j].Error = ""}}

RECURSIVE SelectContainers(_, _, _)
\* Lines 158-163: the containers whose Image is a key of imageUpdates, in order.
SelectContainers(cs, keys, i) ==
    IF i = 0 THEN <<>>
    ELSE IF cs[i].Image \in keys
         THEN Append(SelectContainers(cs, keys, i - 1), cs[i])
         ELSE SelectContainers(cs, keys, i - 1)

\* UpdateContainersByBatchCheckResult, lines 141-168.
OpBegin ==
    /\ rpc = "opBegin"
    /\ IF batch.Summary.Updated = 0
       THEN /\ rpc' = "afterOp"
            /\ UNCHANGED <<imageUpdates, containersToUpdate>>
       ELSE LET keys == ImageUpdates(batch.Images)
                sel  == SelectContainers(batch.Containers, keys, Len(batch.Containers))
            IN  /\ imageUpdates' = keys
                /\ containersToUpdate' = sel
                /\ rpc' = IF Len(sel) = 0 THEN "afterOp" ELSE "loop"
    /\ oi' = 1
    /\ UNCHANGED <<noRestart, cleanUp, resolvedOf, batch, checkErr, docker, opCalls,
                   opErrors, opErr, reported, notified>>
    /\ UNCHANGED <<checkVars, selfVars, fnVars>>

\* Lines 132-137: updateContainers returns an error when errors is not empty.
BatchError(errs) == Len(errs) > 0

\* updateContainers, lines 119-124 and 132-137: the head of the loop.
OpLoop ==
    /\ rpc = "loop"
    /\ IF oi > Len(containersToUpdate)
       THEN /\ opErr' = BatchError(opErrors)
            /\ rpc' = "afterOp"
            /\ oi' = oi
       ELSE IF containersToUpdate[oi].Image \notin imageUpdates
            THEN /\ oi' = oi + 1
                 /\ UNCHANGED <<opErr, rpc>>
            ELSE /\ rpc' = "inspect"
                 /\ UNCHANGED <<opErr, oi>>
    /\ UNCHANGED <<noRestart, cleanUp, resolvedOf, batch, checkErr, imageUpdates,
                   containersToUpdate, docker, opCalls, opErrors, reported, notified>>
    /\ UNCHANGED <<checkVars, selfVars, fnVars>>

\* The engine's effect of one call on a listed container c (ContainerService:
\* ContainerInspect, ContainerStop, ContainerRemove, ContainerCreate,
\* ContainerStart).  ok = FALSE: the engine refuses and nothing changes.  A
\* name can be given to a new container only once its holder is removed.
EngineStep(c, op, image, ok) ==
    LET done ==
          CASE op = "inspect" -> ok /\ c.old # "removed"
            [] op = "stop"    -> ok /\ c.old # "removed"
            [] op = "remove"  -> ok /\ c.old # "removed"
            [] op = "create"  -> ok /\ c.old = "removed" /\ c.new = "none"
            [] op = "start"   -> ok /\ c.new # "none"
    IN  [c |-> IF ~done THEN c
               ELSE CASE op = "inspect" -> c
                      [] op = "stop"    -> [c EXCEPT !.old = "stopped"]
                      [] op = "remove"  -> [c EXCEPT !.old = "removed"]
                      [] op = "create"  -> [c EXCEPT !.new = "created", !.newImage = image]
                      [] op = "start"   -> [c EXCEPT !.new = "running"],
         ok |-> done]

\* One entry of the call log.  timeout and force are the arguments of the
\* stop and of the remove; name and image those of the create.
OpCall(op, id, ok, image) ==
    [op |-> op, c |-> id, ok |-> ok,
     timeout |-> IF op = "stop" THEN StopTimeoutSeconds ELSE 0,
     force |-> op = "remove",
     name |-> IF op = "create" THEN id ELSE 0,
     image |-> IF op = "create" THEN image ELSE ""]

AfterStepIgnoreFailure(next, ok) == next

\* updateContainer: every step returns its error, lines 83-107.
AfterStep(next, ok) == IF ok THEN next ELSE "loop"

AfterFailureAbort(i, n) == n + 1

\* updateContainers, lines 126-129: a failure is recorded and the loop goes on.
AfterFailure(i, n) == i + 1

\* One engine call of updateContainer on containersToUpdate[oi]; next is the
\* position after its success ("loop" after the start: the container is done).
OpStep(op, next) ==
    /\ rpc = op
    /\ \E ok \in BOOLEAN :
          LET info     == containersToUpdate[oi]
              newImage == info.Image
              r        == EngineStep(docker[info.ID], op, newImage, ok)
              nxt      == AfterStep(next, r.ok)
          IN  /\ docker' = [docker EXCEPT ![info.ID] = r.c]
              /\ opCalls' = Append(opCalls, OpCall(op, info.ID, r.ok, newImage))
              /\ rpc' = nxt
              /\ opErrors' = IF r.ok THEN opErrors
                             ELSE Append(opErrors, [c |-> info.ID, step |-> op])
              /\ oi' = IF nxt # "loop" THEN oi
                       ELSE IF r.ok THEN oi + 1
                       ELSE AfterFailure(oi, Len(containersToUpdate))
    /\ UNCHANGED <<noRestart, cleanUp, resolvedOf, batch, checkErr, imageUpdates,
                   containersToUpdate, opErr, reported, notified>>
    /\ UNCHANGED <<checkVars, selfVars, fnVars>>

\* updateContainer, lines 82-85.
OpInspect == OpStep("inspect", "stop")
\* Lines 88-91.
OpStop == OpStep("stop", "remove")
\* Lines 94-96.
OpRemove == OpStep("remove", "create")
\* Lines 99-102 and createNewContainer.
OpCreate == OpStep("create", "start")
\* Lines 105-110.
OpStart == OpStep("start", "loop")

\* cmd.go 118-129: the operator's error is logged, dangling images are pruned
\* when clean-up is set, the notification is sent.
RunAfterOp ==
    /\ rpc = "afterOp"
    /\ \E ok \in BOOLEAN :
          opCalls' = IF cleanUp THEN Append(opCalls, OpCall("prune", 0, ok, ""))
                     ELSE opCalls
    /\ notified' = TRUE
    /\ rpc' = "report"
    /\ UNCHANGED <<noRestart, cleanUp, resolvedOf, batch, checkErr, imageUpdates,
                   containersToUpdate, oi, docker, opErrors, opErr, reported>>
    /\ UNCHANGED <<checkVars, selfVars, fnVars>>

\* cmd.go 133-134: the container list and the summary are printed.
RunReport ==
    /\ rpc = "report"
    /\ reported' = TRUE
    /\ rpc' = "exit"
    /\ UNCHANGED <<noRestart, cleanUp, resolvedOf, batch, checkErr, imageUpdates,
                   containersToUpdate, oi, docker, opCalls, opErrors, opErr, notified>>
    /\ UNCHANGED <<checkVars, selfVars, fnVars>>

RunNext ==
    \/ RunCheck
    \/ RunDecide
    \/ OpBegin
    \/ OpLoop
    \/ OpInspect
    \/ OpStop
    \/ OpRemove
    \/ OpCreate
    \/ OpStart
    \/ RunAfterOp
    \/ RunReport

RunSpec == RunInit /\ [][RunNext]_vars


(***************************************************************************)
(* Properties of the run.                                                  *)
(***************************************************************************)
OpOrder == <<"inspect", "stop", "remove", "create", "start">>

\* The calls issued on listed container c, in the order they were issued.
CallsOf(c) == SelectSeq(opCalls, LAMBDA x : x.c = c /\ x.op # "prune")

\* C12: the engine calls on each container being replaced are, in this order,
\* inspect, stop with a 30 s timeout, forced remove, create under the
\* container's own name with the new image, start; and a call is issued only
\* when the call before it on that container succeeded.
C12_StepsInOrder ==
    \A c \in 1..Len(docker) :
        LET s == CallsOf(c) IN
        /\ Len(s) <= Len(OpOrder)
        /\ \A k \in 1..Len(s) :
              /\ s[k].op = OpOrder[k]
              /\ k > 1 => s[k - 1].ok
              /\ s[k].op = "stop" => s[k].timeout = 30
              /\ s[k].op = "remove" => s[k].force
              /\ s[k].op = "create" =>
                    /\ s[k].name = batch.Containers[c].Name
                    /\ s[k].image = batch.Containers[c].Image
                    /\ s[k].image \in imageUpdates

C12_Witness ==
    \E c \in 1..Len(docker) :
        /\ Len(CallsOf(c)) = Len(OpOrder)
        /\ CallsOf(c)[Len(OpOrder)].ok
        /\ docker[c].old = "removed" /\ docker[c].new = "running"


\* The operator's batch update has returned.
OpReturned == rpc \in {"afterOp", "report", "exit"} /\ Len(containersToUpdate) > 0

\* Some call on listed container c failed.
ContainerFailed(c) == \E k \in 1..Len(CallsOf(c)) : ~CallsOf(c)[k].ok

\* C13: a failed step is the last step issued on its container and is
\* recorded in the error list; once the batch update has returned, every
\* container selected for update has been processed, whatever happened to
\* the containers before it, and the batch returned an error exactly when
\* some container failed.
C13_FailureHaltsContainerOnly ==
    /\ \A c \in 1..Len(docker) :
          \A k \in 1..Len(CallsOf(c)) : ~CallsOf(c)[k].ok => k = Len(CallsOf(c))
    /\ opErrors = [k \in 1..Len(opErrors) |->
                     LET f == SelectSeq(opCalls, LAMBDA x : ~x.ok /\ x.op # "prune")
                     IN  [c |-> f[k].c, step |-> f[k].op]]
    /\ Len(opErrors) = Len(SelectSeq(opCalls, LAMBDA x : ~x.ok /\ x.op # "prune"))
    /\ OpReturned =>
          /\ \A i \in 1..Len(containersToUpdate) :
                Len(CallsOf(containersToUpdate[i].ID)) >= 1
          /\ opErr <=> \E c \in 1..Len(docker) : ContainerFailed(c)
    /\ ~OpReturned => ~opErr

C13_Witness ==
    /\ OpReturned
    /\ Len(containersToUpdate) = 2
    /\ ContainerFailed(containersToUpdate[1].ID)
    /\ docker[containersToUpdate[2].ID].new = "running"
    /\ opErr


\* C20: with no-restart set the run issues no call on any container and
\* leaves every container as it was, whatever the check found; the check has
\* run all the same (every resolved reference has its result) and, unless the
\* container listing itself failed, the run ends with the result printed.
C20_NoRestartTouchesNothing ==
    noRestart =>
        /\ opCalls = <<>>
        /\ \A c \in 1..Len(docker) : docker[c].old = "running" /\ docker[c].new = "none"
        /\ rpc \in {"check", "decide", "report", "exit"}
        /\ rpc # "check" /\ checkErr # "ErrList" =>
              /\ batch.Summary.TotalContainers = Len(docker)
              /\ \A i \in 1..Len(docker) :
                    resolvedOf[i] # "" =>
                        \E k \in 1..Len(batch.Images) : batch.Images[k].Name = resolvedOf[i]
        /\ rpc = "exit" /\ checkErr # "ErrList" => reported

C20_Witness ==
    /\ noRestart
    /\ rpc = "exit"
    /\ reported
    /\ batch.Summary.Updated > 0
    /\ \E k \in 1..Len(batch.Images) :
          /\ batch.Images[k].IsUpdated
          /\ batch.Images[k].RemoteHash # batch.Images[k].LocalHash
          /\ \E c \in 1..Len(docker) : docker[c].image = batch.Images[k].Name


(***************************************************************************)
(* Go values.  A slice or a map is nil or holds elements; the length of a  *)
(* nil slice is 0 and ranging over a nil map visits nothing, but storing    *)
(* into a nil map panics.                                                   *)
(***************************************************************************)
NilSlice == [nil |-> TRUE, v |-> <<>>]
Slice(v) == [nil |-> FALSE, v |-> v]

NilMap == [nil |-> TRUE, m |-> <<>>]
StringMap(m) == [nil |-> FALSE, m |-> m]

NilSet == [nil |-> TRUE, s |-> {}]
StructMap(s) == [nil |-> FALSE, s |-> s]

\* SliceEqual compares lengths, then the elements.
SliceEqual(s1, s2) ==
    /\ Len(s1.v) = Len(s2.v)
    /\ \A i \in 1..Len(s1.v) : s1.v[i] = s2.v[i]

SliceSubtractNothing(a1, a2) == Slice(a1.v)

\* SliceSubtract: the elements of a1 not found in a2, in a new, non-nil slice.
SliceSubtract(a1, a2) ==
    Slice(SelectSeq(a1.v, LAMBDA e1 : ~SeqContains(a2.v, e1)))

StringMapSubtractByKey(m1, m2) ==
    StringMap([k \in DOMAIN m1.m \ DOMAIN m2.m |-> m1.m[k]])

\* StringMapSubtract: the entries of m1 whose key is missing from m2 or has
\* another value there, in a new, non-nil map.
StringMapSubtract(m1, m2) ==
    LET keep == {k1 \in DOMAIN m1.m :
                    IF k1 \in DOMAIN m2.m THEN m2.m[k1] # m1.m[k1] ELSE TRUE}
    IN  StringMap([k \in keep |-> m1.m[k]])

\* StructMapSubtract: the keys of m1 missing from m2, in a new, non-nil map.
StructMapSubtract(m1, m2) == StructMap({k1 \in m1.s : k1 \notin m2.s})

(***************************************************************************)
(* ContainerService.GetCreateConfig and the two callers that build the     *)
(* configuration of a replacement container.                               *)
(***************************************************************************)
NilHealth == [nil |-> TRUE, Test |-> NilSlice, Retries |-> 0, Interval |-> 0,
              Timeout |-> 0, StartPeriod |-> 0]
Health(test, retries, interval, timeout, start) ==
    [nil |-> FALSE, Test |-> test, Retries |-> retries, Interval |-> interval,
     Timeout |-> timeout, StartPeriod |-> start]

HealthA == Health(Slice(<<"CMD", "true">>), 3, 30, 5, 0)
HealthB == Health(Slice(<<"CMD", "true">>), 5, 30, 9, 1)

\* The zero value of container.Config.
ZeroConfig ==
    [Image |-> "", Hostname |-> "", User |-> "", WorkingDir |-> "",
     Entrypoint |-> NilSlice, Cmd |-> NilSlice, Healthcheck |-> NilHealth,
     Env |-> NilSlice, Labels |-> NilMap, Volumes |-> NilSet,
     ExposedPorts |-> NilSet]

\* Configurations embedded in the new image.
ImageConfigs ==
    { ZeroConfig,
      [ZeroConfig EXCEPT !.User = "1000", !.WorkingDir = "/app",
                         !.Entrypoint = Slice(<<"/run">>), !.Cmd = Slice(<<"serve">>),
                         !.Healthcheck = HealthA, !.Env = Slice(<<"A=1">>),
                         !.Labels = StringMap([k \in {"team"} |-> "a"]),
                         !.Volumes = StructMap({"/data"}),
                         !.ExposedPorts = StructMap({"80/tcp"})],
      [ZeroConfig EXCEPT !.Entrypoint = Slice(<<"/run">>),
                         !.Healthcheck = HealthB,
                         !.Env = Slice(<<"A=1">>)] }

\* Configurations of the inspected container.
ContainerConfigs ==
    [Image : {"app:1"}, Hostname : {"h1"}, User : {"", "1000"},
     WorkingDir : {"", "/app"},
     Entrypoint : {NilSlice, Slice(<<"/run">>)},
     Cmd : {NilSlice, Slice(<<"serve">>)},
     Healthcheck : {NilHealth, HealthA, HealthB},
     Env : {NilSlice, Slice(<<"A=1">>), Slice(<<"A=1", "B=2">>),
            Slice(<<"B=2", "A=2">>)},
     Labels : {NilMap, StringMap([k \in {"team"} |-> "a"]),
               StringMap([k \in {"team"} |-> "b"])},
     Volumes : {NilSet, StructMap({"/data"})},
     ExposedPorts : {NilSet, StructMap({}), StructMap({"80/tcp"})}]

\* The part of the inspected HostConfig the configuration depends on.
HostConfigs == [IsContainer : BOOLEAN, PortBindings : {{}, {"80/tcp"}}]

NewImageName == "app:2"

ClearHealthAllOrNothing(hc, ihc) ==
    IF hc = ihc THEN [nil |-> FALSE, Test |-> NilSlice, Retries |-> 0, Interval |-> 0,
                      Timeout |-> 0, StartPeriod |-> 0]
    ELSE hc

\* Lines 276-296 on a non-nil health check.
ClearHealth(hc, ihc) ==
    [nil |-> FALSE,
     Test |-> IF SliceEqual(hc.Test, ihc.Test) THEN NilSlice ELSE hc.Test,
     Retries |-> IF hc.Retries = ihc.Retries THEN 0 ELSE hc.Retries,
     Interval |-> IF hc.Interval = ihc.Interval THEN 0 ELSE hc.Interval,
     Timeout |-> IF hc.Timeout = ihc.Timeout THEN 0 ELSE hc.Timeout,
     StartPeriod |-> IF hc.StartPeriod = ihc.StartPeriod THEN 0 ELSE hc.StartPeriod]

GetCreateConfigCmdAlone(config, hostConfig, imageConfig, imageName) ==
    LET entryEq == SliceEqual(config.Entrypoint, imageConfig.Entrypoint)
        exposed == IF config.ExposedPorts.nil THEN NilSet
                   ELSE StructMap({k \in config.ExposedPorts.s :
                                      k \notin imageConfig.ExposedPorts.s})
        panics  == config.ExposedPorts.nil /\ hostConfig.PortBindings # {}
        out ==
          [Image |-> IF panics THEN config.Image ELSE imageName,
           Hostname |-> IF hostConfig.IsContainer THEN "" ELSE config.Hostname,
           User |-> IF config.User = imageConfig.User THEN "" ELSE config.User,
           WorkingDir |-> IF config.WorkingDir = imageConfig.WorkingDir THEN ""
                          ELSE config.WorkingDir,
           Entrypoint |-> IF entryEq THEN NilSlice ELSE config.Entrypoint,
           Cmd |-> IF SliceEqual(config.Cmd, imageConfig.Cmd)
                   THEN NilSlice ELSE config.Cmd,
           Healthcheck |-> IF ~config.Healthcheck.nil /\ ~imageConfig.Healthcheck.nil
                           THEN ClearHealth(config.Healthcheck, imageConfig.Healthcheck)
                           ELSE config.Healthcheck,
           Env |-> SliceSubtract(config.Env, imageConfig.Env),
           Labels |-> StringMapSubtract(config.Labels, imageConfig.Labels),
           Volumes |-> StructMapSubtract(config.Volumes, imageConfig.Volumes),
           ExposedPorts |-> IF panics THEN exposed
                            ELSE [exposed EXCEPT !.s = @ \cup hostConfig.PortBindings]]
    IN  [panic |-> panics, config |-> out]

\* GetCreateConfig.  panic: the store of a host-bound port into a nil
\* ExposedPorts map (lines 310-312) ended the program; config is then the
\* configuration as far as it had been rewritten.
GetCreateConfig(config, hostConfig, imageConfig, imageName) ==
    LET entryEq == SliceEqual(config.Entrypoint, imageConfig.Entrypoint)
        exposed == IF config.ExposedPorts.nil THEN NilSet
                   ELSE StructMap({k \in config.ExposedPorts.s :
                                      k \notin imageConfig.ExposedPorts.s})
        panics  == config.ExposedPorts.nil /\ hostConfig.PortBindings # {}
        out ==
          [Image |-> IF panics THEN config.Image ELSE imageName,
           Hostname |-> IF hostConfig.IsContainer THEN "" ELSE config.Hostname,
           User |-> IF config.User = imageConfig.User THEN "" ELSE config.User,
           WorkingDir |-> IF config.WorkingDir = imageConfig.WorkingDir THEN ""
                          ELSE config.WorkingDir,
           Entrypoint |-> IF entryEq THEN NilSlice ELSE config.Entrypoint,
           Cmd |-> IF entryEq /\ SliceEqual(config.Cmd, imageConfig.Cmd)
                   THEN NilSlice ELSE config.Cmd,
           Healthcheck |-> IF ~config.Healthcheck.nil /\ ~imageConfig.Healthcheck.nil
                           THEN ClearHealth(config.Healthcheck, imageConfig.Healthcheck)
                           ELSE config.Healthcheck,
           Env |-> SliceSubtract(config.Env, imageConfig.Env),
           Labels |-> StringMapSubtract(config.Labels, imageConfig.Labels),
           Volumes |-> StructMapSubtract(config.Volumes, imageConfig.Volumes),
           ExposedPorts |-> IF panics THEN exposed
                            ELSE [exposed EXCEPT !.s = @ \cup hostConfig.PortBindings]]
    IN  [panic |-> panics, config |-> out]

\* Operator.createNewContainer, lines 47-52: the container.Config literal.
OperatorConfig(config, newImage) ==
    [ZeroConfig EXCEPT !.Image = newImage, !.Cmd = config.Cmd, !.Env = config.Env,
                       !.Labels = config.Labels]

ReconInit ==
    /\ CheckIdle
    /\ SelfIdle
    /\ RunIdle
    /\ fnIn \in [config : ContainerConfigs, hostConfig : HostConfigs,
                 imageConfig : ImageConfigs]
    /\ fnOut = <<>>

\* The result r of function name is recorded.
Record(name, r) ==
    [n \in DOMAIN fnOut \cup {name} |-> IF n = name THEN r ELSE fnOut[n]]

\* SelfUpdater.createNewContainer, line 160.
SelfCreateConfig ==
    /\ "self" \notin DOMAIN fnOut
    /\ fnOut' = Record("self", GetCreateConfig(fnIn.config, fnIn.hostConfig,
                                               fnIn.imageConfig, NewImageName))
    /\ UNCHANGED fnIn
    /\ UNCHANGED <<checkVars, selfVars, runVars>>

\* Operator.createNewContainer, lines 47-52.
OperatorCreateConfig ==
    /\ "operator" \notin DOMAIN fnOut
    /\ fnOut' = Record("operator", [panic |-> FALSE,
                                    config |-> OperatorConfig(fnIn.config, NewImageName)])
    /\ UNCHANGED fnIn
    /\ UNCHANGED <<checkVars, selfVars, runVars>>

ReconNext ==
    \/ SelfCreateConfig
    \/ OperatorCreateConfig

ReconSpec == ReconInit /\ [][ReconNext]_vars


(***************************************************************************)
(* Properties of the replacement configuration.                            *)
(***************************************************************************)
\* The inspected configuration equals the image's in every field the image
\* can supply.
EqualsDefaults(c, i) ==
    /\ c.User = i.User
    /\ c.WorkingDir = i.WorkingDir
    /\ SliceEqual(c.Entrypoint, i.Entrypoint)
    /\ SliceEqual(c.Cmd, i.Cmd)
    /\ c.Healthcheck = i.Healthcheck
    /\ SliceEqual(c.Env, i.Env)
    /\ c.Labels.m = i.Labels.m
    /\ c.Volumes.s = i.Volumes.s
    /\ c.ExposedPorts.s = i.ExposedPorts.s

\* C14: the configuration the operator creates an ordinary container with is
\* the one GetCreateConfig computes for the self container, and every field
\* in which the inspected container differs from the image default is
\* carried over to it.
C14_OperatorUsesReconciler ==
    "operator" \in DOMAIN fnOut =>
        LET out == fnOut["operator"].config
            c   == fnIn.config
            i   == fnIn.imageConfig
        IN  /\ ("self" \in DOMAIN fnOut /\ ~fnOut["self"].panic) =>
                   out = fnOut["self"].config
            /\ c.User # i.User => out.User = c.User
            /\ c.WorkingDir # i.WorkingDir => out.WorkingDir = c.WorkingDir
            /\ ~SliceEqual(c.Entrypoint, i.Entrypoint) =>
                   SliceEqual(out.Entrypoint, c.Entrypoint)
            /\ (~c.Healthcheck.nil /\ c.Healthcheck # i.Healthcheck) =>
                   ~out.Healthcheck.nil
            /\ \A p \in c.ExposedPorts.s \ i.ExposedPorts.s : p \in out.ExposedPorts.s

MaxHistory == 3

CheckedImage == "nginx:latest"

\* cli.ImageList with the reference filter: at most the one image the
\* reference names.
ImageList(local, ok) ==
    IF ~ok THEN [err |-> TRUE, images |-> <<>>]
    ELSE [err |-> FALSE, images |-> IF local = "" THEN <<>> ELSE <<local>>]

\* cli.ImagePull followed by the scan of its progress stream (lines 90-101).
\* "refused": ImagePull returns an error; "broken": the pull fails inside the
\* stream, which the scan only logs; "done": the reference now names the
\* registry's image.
PullOutcomes == {"refused", "broken", "done"}

ImagePull(store, outcome) ==
    IF outcome = "done" THEN [store EXCEPT !.local = store.registry] ELSE store

DetectInit ==
    /\ CheckIdle
    /\ SelfIdle
    /\ RunIdle
    /\ fnIn \in [local : {""} \cup Hashes, registry : Hashes]
    /\ fnOut = <<>>

\* ImageService.CheckUpdate on the store.
DetectRun ==
    /\ Len(fnOut) < MaxHistory
    /\ \E listOK \in BOOLEAN, pull \in PullOutcomes, afterOK \in BOOLEAN :
          LET local  == GetLocalHash(ImageList(fnIn.local, listOK))
              pulled == IF local.err # "" THEN fnIn ELSE ImagePull(fnIn, pull)
              remote == IF local.err # "" THEN NotCalled
                        ELSE GetRemoteHash(pull # "refused",
                                           ImageList(pulled.local, afterOK))
              r      == CheckUpdate(CheckedImage, local, remote)
          IN  /\ fnIn' = pulled
              /\ fnOut' = Append(fnOut, [kind |-> "check", local |-> fnIn.local,
                                         registry |-> fnIn.registry, info |-> r.info])
    /\ UNCHANGED <<checkVars, selfVars, runVars>>

\* Somebody pushes another image under the reference.
RegistryPush ==
    /\ Len(fnOut) < MaxHistory
    /\ \E h \in Hashes \ {fnIn.registry} :
          /\ fnIn' = [fnIn EXCEPT !.registry = h]
          /\ fnOut' = Append(fnOut, [kind |-> "push", local |-> fnIn.local,
                                     registry |-> fnIn.registry,
                                     info |-> NewImageCheckResult(CheckedImage)])
    /\ UNCHANGED <<checkVars, selfVars, runVars>>

DetectNext ==
    \/ DetectRun
    \/ RegistryPush

DetectSpec == DetectInit /\ [][DetectNext]_vars

\* C16: of two consecutive checks of an image whose local content equals the
\* registry's when the first one starts, with no push in between, neither
\* reports an update.
C16_UnchangedNeverUpdated ==
    \A k \in 1..(Len(fnOut) - 1) :
        (/\ fnOut[k].kind = "check"
         /\ fnOut[k + 1].kind = "check"
         /\ fnOut[k].local = fnOut[k].registry) =>
            /\ ~fnOut[k].info.IsUpdated
            /\ ~fnOut[k + 1].info.IsUpdated
            /\ fnOut[k + 1].local = fnOut[k].local

C16_Witness ==
    \E k \in 1..(Len(fnOut) - 1) :
        /\ fnOut[k].kind = "check" /\ fnOut[k + 1].kind = "check"
        /\ fnOut[k].local = fnOut[k].registry
        /\ fnOut[k].info.Error = "" /\ fnOut[k + 1].info.Error = ""
        /\ fnOut[k].info.RemoteHash = fnOut[k].info.LocalHash
        /\ fnOut[k + 1].info.RemoteHash = fnOut[k + 1].info.LocalHash


(***************************************************************************)
(* ImageService.NormalizeReference applied to one reference.  fnIn holds   *)
(* the reference and what the engine answers if it is asked to inspect it; *)
(* fnOut the result and whether the engine was asked.                      *)
(***************************************************************************)
NormRefs == {"", AnonRef, "sha256:aaa", "sha256:bbb", "nginx:latest", "redis:7",
             "nginx@sha256:d1"}

NormTagLists == TagLists \cup {<<AnonRef, "">>, <<"redis:7", "nginx:latest">>,
                               <<AnonRef, "redis:7", "", "nginx:latest">>}

NormDigestLists == DigestLists \cup {<<"nginx@sha256:d2", "nginx@sha256:d1">>}

NormInspects ==
    {NoInspect} \cup [err : {FALSE}, RepoTags : NormTagLists,
                      RepoDigests : NormDigestLists]

NormInit ==
    /\ CheckIdle
    /\ SelfIdle
    /\ RunIdle
    /\ fnIn \in [imageName : NormRefs, inspect : NormInspects]
    /\ fnOut = <<>>

\* One call; the engine is asked (line 49) only past the tests of lines 43 and 47.
Normalize ==
    /\ fnOut = <<>>
    /\ fnOut' = [result |-> NormalizeReference(fnIn.imageName, fnIn.inspect),
                 inspected |-> NeedsInspect(fnIn.imageName)]
    /\ UNCHANGED fnIn
    /\ UNCHANGED <<checkVars, selfVars, runVars>>

NormNext == Normalize

NormSpec == NormInit /\ [][NormNext]_vars

\* Position of the first tag that is neither empty nor the anonymous
\* placeholder, 0 when there is none.
FirstGoodTag(tags) ==
    IF \E i \in 1..Len(tags) : tags[i] \notin {"", AnonRef}
    THEN CHOOSE i \in 1..Len(tags) :
            /\ tags[i] \notin {"", AnonRef}
            /\ \A j \in 1..(i - 1) : tags[j] \in {"", AnonRef}
    ELSE 0

\* C17: an ordinary reference comes back unchanged and the engine is not
\* asked; a sha256: or anonymous reference comes back as the first repo tag of
\* the inspected image that is neither empty nor anonymous, else as its first
\* repo digest; the call fails exactly when the reference is empty, the
\* inspect fails, or the image has neither such a tag nor a digest.
C17_NormalizeReference ==
    fnOut # <<>> =>
        LET n    == fnIn.imageName
            ins  == fnIn.inspect
            r    == fnOut.result
            form == n \in {"sha256:aaa", "sha256:bbb", AnonRef}
            g    == FirstGoodTag(ins.RepoTags)
        IN  /\ fnOut.inspected <=> form
            /\ (n # "" /\ ~form) => r.ref = n /\ r.err = ""
            /\ (form /\ ~ins.err /\ g > 0) => r.ref = ins.RepoTags[g] /\ r.err = ""
            /\ (form /\ ~ins.err /\ g = 0 /\ Len(ins.RepoDigests) > 0) =>
                  r.ref = ins.RepoDigests[1] /\ r.err = ""
            /\ r.err # "" <=>
                  \/ n = ""
                  \/ form /\ ins.err
                  \/ form /\ g = 0 /\ Len(ins.RepoDigests) = 0
            /\ r.err # "" => r.ref = ""

C17_Witness ==
    /\ fnOut # <<>>
    /\ fnIn.imageName = "sha256:bbb"
    /\ fnIn.inspect.RepoTags = <<AnonRef, "redis:7", "", "nginx:latest">>
    /\ fnOut.result.ref = "redis:7"
    /\ fnOut.inspected


(***************************************************************************)
(* Properties of the batch result's image list.                            *)
(***************************************************************************)
\* C18: no two entries of the result's image list carry the same image
\* reference, entries of unresolvable references included.
C18_OneResultPerReference ==
    \A i, j \in 1..Len(result.Images) :
        i # j => result.Images[i].Name # result.Images[j].Name


(***************************************************************************)
(* ContainerService.GetByLabel against the engine's container list.        *)
(* fnIn holds the engine's containers and the arguments, fnOut the result. *)
(***************************************************************************)
MaxListed == 2

UpdateLabel == "watchducker.update"

\* Label sets a container may carry.
LabelSets == {<<>>,
              [k \in {UpdateLabel} |-> "true"],
              [k \in {UpdateLabel} |-> "false"],
              [k \in {"other"} |-> "true"]}

\* The engine's record of container n; a name is a string of characters and
\* the engine writes it with a leading slash.
EngineContainer(n, labels, state) ==
    [ID |-> n, Names |-> <<<<"/", "c", n>>>>, Image |-> "nginx:latest",
     Labels |-> labels, State |-> state]

LabelFilterKeyOnly(labelKey, labelValue) == [key |-> labelKey, any |-> TRUE, value |-> ""]

\* Lines 81-88: key=value when a value is given, else the key alone.
LabelFilter(labelKey, labelValue) ==
    IF labelValue # "" THEN [key |-> labelKey, any |-> FALSE, value |-> labelValue]
    ELSE [key |-> labelKey, any |-> TRUE, value |-> ""]

\* The engine's label filter.
MatchesLabel(c, filter) ==
    /\ filter.key \in DOMAIN c.Labels
    /\ filter.any \/ c.Labels[filter.key] = filter.value

\* cli.ContainerList: the running containers, or all of them with All set,
\* that pass the filter.
ContainerList(engineList, all, filter) ==
    SelectSeq(engineList, LAMBDA c : (all \/ c.State = "running") /\ MatchesLabel(c, filter))

\* Lines 100-104: the first name without its leading slash.
NormalizedName(names) ==
    IF Len(names[1]) > 0 /\ names[1][1] = "/" THEN Tail(names[1]) ELSE names[1]

\* createContainerInfo.
CreateContainerInfo(c, name) ==
    [ID |-> c.ID, Name |-> name, Image |-> c.Image, Labels |-> c.Labels,
     State |-> c.State]

\* GetByLabel; ok = FALSE: ContainerList returned an error.
GetByLabel(engineList, labelKey, labelValue, includeStopped, ok) ==
    IF ~ok THEN [containers |-> <<>>, err |-> TRUE]
    ELSE LET listed == ContainerList(engineList, includeStopped,
                                     LabelFilter(labelKey, labelValue))
         IN  [containers |-> [k \in 1..Len(listed) |->
                                CreateContainerInfo(listed[k],
                                                    NormalizedName(listed[k].Names))],
              err |-> FALSE]

LabelInit ==
    /\ CheckIdle
    /\ SelfIdle
    /\ RunIdle
    /\ \E n \in 0..MaxListed :
       \E ls \in [1..n -> LabelSets], st \in [1..n -> {"running", "exited"}] :
       \E inc \in BOOLEAN, v \in {"true", ""} :
          fnIn = [engine |-> [k \in 1..n |-> EngineContainer(k, ls[k], st[k])],
                  labelKey |-> UpdateLabel, labelValue |-> v,
                  includeStopped |-> inc]
    /\ fnOut = <<>>

\* Checker.CheckByLabel, the discovery call.
DiscoverByLabel ==
    /\ fnOut = <<>>
    /\ \E ok \in BOOLEAN :
          fnOut' = GetByLabel(fnIn.engine, fnIn.labelKey, fnIn.labelValue,
                              fnIn.includeStopped, ok)
    /\ UNCHANGED fnIn
    /\ UNCHANGED <<checkVars, selfVars, runVars>>

LabelNext == DiscoverByLabel

LabelSpec == LabelInit /\ [][LabelNext]_vars

\* C19: discovery by watchducker.update=true returns, once each, exactly the
\* engine's containers that carry that label with that value and are running
\* or, with include-stopped set, in any state; a container without the label
\* is never returned.
C19_ExactlyTheLabelled ==
    (fnOut # <<>> /\ fnIn.labelValue = "true" /\ ~fnOut.err) =>
        /\ \A k \in 1..Len(fnIn.engine) :
              LET c == fnIn.engine[k] IN
              (\E j \in 1..Len(fnOut.containers) : fnOut.containers[j].ID = c.ID) <=>
                  /\ "watchducker.update" \in DOMAIN c.Labels
                  /\ c.Labels["watchducker.update"] = "true"
                  /\ c.State = "running" \/ fnIn.includeStopped
        /\ \A i, j \in 1..Len(fnOut.containers) :
              i # j => fnOut.containers[i].ID # fnOut.containers[j].ID
        /\ \A j \in 1..Len(fnOut.containers) :
              \E k \in 1..Len(fnIn.engine) :
                  /\ fnIn.engine[k].ID = fnOut.containers[j].ID
                  /\ fnOut.containers[j].Name = <<"c", k>>

C19_Witness ==
    /\ fnOut # <<>> /\ fnIn.labelValue = "true" /\ ~fnOut.err
    /\ Len(fnIn.engine) = 2
    /\ fnIn.engine[1].Labels = [k \in {"watchducker.update"} |-> "true"]
    /\ fnIn.engine[2].Labels = <<>>
    /\ fnIn.engine[2].State = "running"
    /\ Len(fnOut.containers) = 1
    /\ fnOut.containers[1].ID = 1


\* C21: a check that returns an error together with a result in which some
\* image is updated does not keep the operator from running (no-restart not
\* set): the operator builds its update map from that result and every
\* container whose image is a key of the map goes through the replacement
\* before the run reports.
C21_ErrorDoesNotDiscardResult ==
    (checkErr = "ErrCheck" /\ ~noRestart /\ batch.Summary.Updated > 0
        /\ rpc \in {"report", "exit"}) =>
        /\ notified
        /\ imageUpdates = ImageUpdates(batch.Images)
        /\ imageUpdates # {}
        /\ \A c \in 1..Len(docker) :
              docker[c].image \in imageUpdates =>
                  /\ Len(CallsOf(c)) >= 1
                  /\ CallsOf(c)[1].op = "inspect"

C21_Witness ==
    /\ rpc = "exit"
    /\ checkErr = "ErrCheck"
    /\ ~noRestart
    /\ \E k \in 1..Len(batch.Images) :
          batch.Images[k].Error # "" /\ batch.Images[k].LocalHash # ""
    /\ \E c \in 1..Len(docker) :
          /\ docker[c].image \in imageUpdates
          /\ docker[c].old = "removed" /\ docker[c].new = "running"


C22_CommandFollowsEntrypoint ==
    "self" \in DOMAIN fnOut =>
        LET out == fnOut["self"].config
            c   == fnIn.config
            i   == fnIn.imageConfig
            eEq == c.Entrypoint.v = i.Entrypoint.v
            cEq == c.Cmd.v = i.Cmd.v
        IN  /\ eEq => out.Entrypoint = NilSlice
            /\ ~eEq => out.Entrypoint = c.Entrypoint /\ out.Cmd = c.Cmd
            /\ (eEq /\ cEq) => out.Cmd = NilSlice
            /\ (eEq /\ ~cEq) => out.Cmd = c.Cmd

C22_Witness ==
    /\ "self" \in DOMAIN fnOut
    /\ ~fnOut["self"].panic
    /\ fnIn.imageConfig.Entrypoint = Slice(<<"/run">>)
    /\ fnIn.config.Entrypoint = NilSlice
    /\ fnIn.imageConfig.Cmd = Slice(<<"serve">>)
    /\ fnIn.config.Cmd = Slice(<<"serve">>)
    /\ fnOut["self"].config.Cmd = Slice(<<"serve">>)


\* C23: the exposed ports of the reconciled configuration are the container's
\* exposed ports that the image does not expose, together with every port
\* that has a host binding, also when the container has no exposed-port set.
C23_ExposedPorts ==
    "self" \in DOMAIN fnOut =>
        fnOut["self"].config.ExposedPorts.s =
            (fnIn.config.ExposedPorts.s \ fnIn.imageConfig.ExposedPorts.s)
                \cup fnIn.hostConfig.PortBindings


\* C24: the reconciled environment is the container's entries, in order,
\* that are not entries of the image; a label is kept, with the container's
\* value, exactly when the image lacks the key or gives it another value; the
\* volumes are the container's that the image does not declare.
C24_SubtractDefaults ==
    "self" \in DOMAIN fnOut =>
        LET out == fnOut["self"].config
            c   == fnIn.config
            i   == fnIn.imageConfig
            inImage(e) == \E k \in 1..Len(i.Env.v) : i.Env.v[k] = e
        IN  /\ out.Env.v = SelectSeq(c.Env.v, LAMBDA e : ~inImage(e))
            /\ \A k \in DOMAIN c.Labels.m \cup DOMAIN i.Labels.m \cup DOMAIN out.Labels.m :
                  k \in DOMAIN out.Labels.m <=>
                      /\ k \in DOMAIN c.Labels.m
                      /\ k \notin DOMAIN i.Labels.m \/ i.Labels.m[k] # c.Labels.m[k]
            /\ \A k \in DOMAIN out.Labels.m : out.Labels.m[k] = c.Labels.m[k]
            /\ out.Volumes.s = c.Volumes.s \ i.Volumes.s

C24_Witness ==
    /\ "self" \in DOMAIN fnOut
    /\ ~fnOut["self"].panic
    /\ fnIn.imageConfig.Labels = StringMap([k \in {"team"} |-> "a"])
    /\ fnIn.config.Labels = StringMap([k \in {"team"} |-> "b"])
    /\ fnOut["self"].config.Labels = StringMap([k \in {"team"} |-> "b"])
    /\ fnIn.imageConfig.Env = Slice(<<"A=1">>)
    /\ fnIn.config.Env = Slice(<<"A=1", "B=2">>)
    /\ fnOut["self"].config.Env = Slice(<<"B=2">>)
    /\ fnIn.config.Volumes = StructMap({"/data"})
    /\ fnOut["self"].config.Volumes = StructMap({})

\* C25: when both the container and the image have a health check, each of
\* test, retries, interval, timeout and start period is zeroed exactly when
\* it equals the image's value of that field and is otherwise kept; without
\* a health check on either side nothing is touched.
C25_HealthFieldsIndependent ==
    "self" \in DOMAIN fnOut =>
        LET out == fnOut["self"].config.Healthcheck
            h   == fnIn.config.Healthcheck
            ih  == fnIn.imageConfig.Healthcheck
        IN  IF h.nil \/ ih.nil THEN out = h
            ELSE /\ ~out.nil
                 /\ out.Test = IF h.Test.v = ih.Test.v THEN NilSlice ELSE h.Test
                 /\ out.Retries = IF h.Retries = ih.Retries THEN 0 ELSE h.Retries
                 /\ out.Interval = IF h.Interval = ih.Interval THEN 0 ELSE h.Interval
                 /\ out.Timeout = IF h.Timeout = ih.Timeout THEN 0 ELSE h.Timeout
                 /\ out.StartPeriod = IF h.StartPeriod = ih.StartPeriod THEN 0
                                      ELSE h.StartPeriod

C25_Witness ==
    /\ "self" \in DOMAIN fnOut
    /\ ~fnOut["self"].panic
    /\ fnIn.config.Healthcheck = HealthB
    /\ fnIn.imageConfig.Healthcheck = HealthA
    /\ fnOut["self"].config.Healthcheck.Test = NilSlice
    /\ fnOut["self"].config.Healthcheck.Interval = 0
    /\ fnOut["self"].config.Healthcheck.Retries = HealthB.Retries
    /\ fnOut["self"].config.Healthcheck.Timeout = HealthB.Timeout


(***************************************************************************)
(* ContainerService.GetCreateHostConfig and GetNetworkConfig.  Strings the *)
(* code cuts or compares by position (links, container IDs, aliases) are   *)
(* sequences of characters.  fnIn is the inspected container: its ID, its  *)
(* links, the aliases of its network endpoints (aliases0: as first         *)
(* inspected); fnOut holds the results by function name.                   *)
(***************************************************************************)
MaxCycles == 2

ShortIDLen == 12

\* strings.Index / strings.LastIndex for a one-character needle: the 0-based
\* position of its first / last occurrence, -1 when there is none.
StrIndex(s, ch) ==
    IF \E k \in 1..Len(s) : s[k] = ch
    THEN (CHOOSE k \in 1..Len(s) : s[k] = ch /\ \A j \in 1..(k - 1) : s[j] # ch) - 1
    ELSE -1

StrLastIndexAsFirst(s, ch) == StrIndex(s, ch)

StrLastIndex(s, ch) ==
    IF \E k \in 1..Len(s) : s[k] = ch
    THEN (CHOOSE k \in 1..Len(s) : s[k] = ch /\ \A j \in (k + 1)..Len(s) : s[j] # ch) - 1
    ELSE -1

\* The Go slice expression s[lo:hi] on a string; it panics unless
\* 0 <= lo <= hi <= len(s).
GoSliceOK(s, lo, hi) == 0 <= lo /\ lo <= hi /\ hi <= Len(s)
GoSlice(s, lo, hi) == SubSeq(s, lo + 1, hi)

\* Lines 322-325: one link rewritten.
RewriteLink(link) ==
    LET colon == StrIndex(link, ":")
        slash == StrLastIndex(link, "/")
    IN  IF ~GoSliceOK(link, 0, colon) \/ ~GoSliceOK(link, slash, Len(link))
        THEN [panic |-> TRUE, link |-> link]
        ELSE [panic |-> FALSE,
              link |-> GoSlice(link, 0, colon) \o <<":">> \o GoSlice(link, slash, Len(link))]

\* GetCreateHostConfig: hostConfig.Links rewritten in place.
GetCreateHostConfig(links) ==
    [panic |-> \E k \in 1..Len(links) : RewriteLink(links[k]).panic,
     Links |-> [k \in 1..Len(links) |-> RewriteLink(links[k]).link]]

StripAliasNothing(aliases, cidAlias) == aliases

\* Lines 339-348: the aliases of one endpoint without the container's own.
StripAlias(aliases, cidAlias) == SelectSeq(aliases, LAMBDA alias : alias # cidAlias)

\* containerJSON.ID[:12]
ShortID(id) == GoSlice(id, 0, ShortIDLen)

\* GetNetworkConfig: the endpoints of the inspected container, each with its
\* aliases stripped.
GetNetworkConfig(id, networks) ==
    [n \in DOMAIN networks |-> StripAlias(networks[n], ShortID(id))]

\* The 64-character ID of the k-th container of the update chain, cut here to
\* 14 characters.
ContainerID(k) ==
    <<"c", ToString(k), "0", "1", "2", "3", "4", "5", "6", "7", "8", "9", "a", "b">>

\* Links as the engine reports them: /name:/container/alias.
InspectedLinks ==
    {<<>>,
     <<<<"/", "d", ":", "/", "w", "/", "a">>>>,
     <<<<"/", "d", "b", ":", "/", "w", "/", "d", "b">>>>,
     <<<<"/", "d", ":", "/", "w", "/", "a">>,
       <<"/", "d", "b", ":", "/", "w", "/", "d", "b">>>>}

\* Alias lists of an endpoint of container 1 as the engine reports them: the
\* user's aliases, the container's own short ID which the engine adds, and
\* possibly the short ID of a container it replaced.
InspectedAliases ==
    {<<>>,
     <<<<"w", "e", "b">>>>,
     <<<<"w", "e", "b">>, ShortID(ContainerID(1))>>,
     <<ShortID(ContainerID(1)), <<"w", "e", "b">>, ContainerID(1)>>,
     <<ShortID(ContainerID(0)), <<"w", "e", "b">>, ShortID(ContainerID(1)),
       <<"a", "p", "i">>>>}

HostNetInit ==
    /\ CheckIdle
    /\ SelfIdle
    /\ RunIdle
    /\ \E links \in InspectedLinks, nets \in {{"n1"}, {"n1", "n2"}} :
       \E al \in [nets -> InspectedAliases] :
          fnIn = [cycle |-> 1, ID |-> ContainerID(1), Links |-> links,
                  Networks |-> al, aliases0 |-> al]
    /\ fnOut = <<>>

\* SelfUpdater.createNewContainer, line 161.
HostConfigStep ==
    /\ "host" \notin DOMAIN fnOut
    /\ fnOut' = Record("host", GetCreateHostConfig(fnIn.Links))
    /\ UNCHANGED fnIn
    /\ UNCHANGED <<checkVars, selfVars, runVars>>

\* SelfUpdater.createNewContainer, line 162.
NetworkConfigStep ==
    /\ "network" \notin DOMAIN fnOut
    /\ fnOut' = Record("network", GetNetworkConfig(fnIn.ID, fnIn.Networks))
    /\ UNCHANGED fnIn
    /\ UNCHANGED <<checkVars, selfVars, runVars>>

\* The replacement is created from the two results and is the container the
\* next update inspects: the engine reports its links in the inspected form
\* again and has added its short ID to the aliases of every endpoint.
NextCycle ==
    /\ fnIn.cycle <= MaxCycles
    /\ {"host", "network"} \subseteq DOMAIN fnOut
    /\ ~fnOut["host"].panic
    /\ LET id == ContainerID(fnIn.cycle + 1) IN
       fnIn' = [fnIn EXCEPT
                  !.cycle = @ + 1,
                  !.ID = id,
                  !.Networks = [n \in DOMAIN fnOut["network"] |->
                                  Append(fnOut["network"][n], ShortID(id))]]
    /\ fnOut' = <<>>
    /\ UNCHANGED <<checkVars, selfVars, runVars>>

HostNetNext ==
    \/ HostConfigStep
    \/ NetworkConfigStep
    \/ NextCycle

HostNetSpec == HostNetInit /\ [][HostNetNext]_vars


(***************************************************************************)
(* Properties of the reconciled host and network configuration.            *)
(***************************************************************************)
\* C26 as stated: no rewritten link contains a '/', neither in its name part
\* nor in its alias part.
C26_NoPathSegment ==
    "host" \in DOMAIN fnOut =>
        \A k \in 1..Len(fnOut["host"].Links) :
            \A j \in 1..Len(fnOut["host"].Links[k]) : fnOut["host"].Links[k][j] # "/"

\* C26, amended: a link /name:/container/alias is rewritten to /name:/alias.
\* The part before the colon is the inspected one, leading slash included;
\* the part after it is a slash followed by the last path segment of the
\* inspected alias, which holds no further slash.
C26_LinkKeepsLeadingSlashes ==
    "host" \in DOMAIN fnOut =>
        /\ ~fnOut["host"].panic
        /\ Len(fnOut["host"].Links) = Len(fnIn.Links)
        /\ \A k \in 1..Len(fnIn.Links) :
              LET l == fnIn.Links[k]
                  o == fnOut["host"].Links[k]
                  c == CHOOSE j \in 1..Len(o) : o[j] = ":"
                  a == SubSeq(o, c + 1, Len(o))
              IN  /\ \E j \in 1..Len(o) : o[j] = ":"
                  /\ \A j \in 1..(c - 1) : o[j] # ":"
                  /\ SubSeq(o, 1, c) = SubSeq(l, 1, c)
                  /\ o[1] = "/"
                  /\ a[1] = "/"
                  /\ \A j \in 2..Len(a) : a[j] \notin {"/", ":"}
                  /\ a = SubSeq(l, Len(l) - Len(a) + 1, Len(l))
                  /\ Len(o) < Len(l)

C26_Witness ==
    /\ "host" \in DOMAIN fnOut
    /\ Len(fnIn.Links) = 2
    /\ fnIn.Links[1] = <<"/", "d", ":", "/", "w", "/", "a">>
    /\ fnOut["host"].Links[1] = <<"/", "d", ":", "/", "a">>
    /\ fnOut["host"].Links[2] = <<"/", "d", "b", ":", "/", "d", "b">>

\* C27: the reconciled aliases of every endpoint are the inspected ones, in
\* their order, without the inspected container's 12-character short ID; and
\* over a chain of updates no endpoint carries the short ID of a container
\* the chain has replaced, so its alias list is never more than one entry
\* longer than when first inspected.
C27_OwnAliasStripped ==
    /\ "network" \in DOMAIN fnOut =>
          /\ DOMAIN fnOut["network"] = DOMAIN fnIn.Networks
          /\ \A n \in DOMAIN fnIn.Networks :
                /\ \A k \in 1..Len(fnOut["network"][n]) :
                      fnOut["network"][n][k] # SubSeq(fnIn.ID, 1, 12)
                /\ fnOut["network"][n] =
                      SelectSeq(fnIn.Networks[n],
                                LAMBDA a : a # SubSeq(fnIn.ID, 1, 12))
    /\ \A n \in DOMAIN fnIn.Networks :
          /\ \A j \in 1..(fnIn.cycle - 1) :
                \A k \in 1..Len(fnIn.Networks[n]) :
                    fnIn.Networks[n][k] # SubSeq(ContainerID(j), 1, 12)
          /\ Len(fnIn.Networks[n]) <= Len(fnIn.aliases0[n]) + 1

C27_Witness ==
    /\ fnIn.cycle = 3
    /\ "network" \in DOMAIN fnOut
    /\ fnIn.aliases0["n1"] =
          <<ShortID(ContainerID(1)), <<"w", "e", "b">>, ContainerID(1)>>
    /\ fnIn.Networks["n1"] = <<<<"w", "e", "b">>, ContainerID(1), ShortID(ContainerID(3))>>
    /\ fnOut["network"]["n1"] = <<<<"w", "e", "b">>, ContainerID(1)>>


(***************************************************************************)
(* SelfUpdater.SelfUpdate up to the call of selfUpdateContainer: the self  *)
(* container is looked for among the running containers.  An image         *)
(* reference is a sequence of its parts, a part standing for the characters*)
(* it is written with.  fnIn is the engine's list, fnOut the progress.     *)
(***************************************************************************)
MaxSelfListed == 2

SelfLabel == "naomi233.watchducker"

\* strings.Contains for a needle of one part.
Contains(s, part) == \E k \in 1..Len(s) : s[k] = part

ListedImages ==
    {<<>>,
     <<"nginx", ":", "latest">>,
     <<"naomi233", "/", "watchducker", ":", "latest">>,
     <<"fork", "/", "watchducker">>,
     <<"naomi233", "/", "other">>}

ListedLabels ==
    {<<>>, [k \in {SelfLabel} |-> "true"], [k \in {SelfLabel} |-> "false"]}

HasSelfLabel(labels) == SelfLabel \in DOMAIN labels /\ labels[SelfLabel] = "true"

\* isSelfContainer: the label, or else the image name.
IsSelfContainer(containerInfo) ==
    \/ HasSelfLabel(containerInfo.Labels)
    \/ /\ containerInfo.Image # <<>>
       /\ \/ Contains(containerInfo.Image, "watchducker")
          \/ Contains(containerInfo.Image, "naomi233")

\* findSelfContainer, lines 54-61: the position of the first listed container
\* that isSelfContainer accepts, 0 when there is none.
FindSelfContainer(allContainers) ==
    IF \E k \in 1..Len(allContainers) : IsSelfContainer(allContainers[k])
    THEN CHOOSE k \in 1..Len(allContainers) :
            /\ IsSelfContainer(allContainers[k])
            /\ \A j \in 1..(k - 1) : ~IsSelfContainer(allContainers[j])
    ELSE 0

FindInit ==
    /\ CheckIdle
    /\ SelfIdle
    /\ RunIdle
    /\ \E n \in 0..MaxSelfListed :
       \E im \in [1..n -> ListedImages], lb \in [1..n -> ListedLabels] :
          fnIn = [k \in 1..n |-> [ID |-> k, Image |-> im[k], Labels |-> lb[k]]]
    /\ fnOut = <<>>

\* SelfUpdate, lines 84-87 with findSelfContainer; ok = FALSE: GetAll failed.
FindSelf ==
    /\ fnOut = <<>>
    /\ \E ok \in BOOLEAN :
          LET k == FindSelfContainer(fnIn) IN
          fnOut' = IF ~ok THEN [stage |-> "returned", self |-> 0, err |-> "ErrList"]
                   ELSE IF k = 0 THEN [stage |-> "returned", self |-> 0, err |-> "ErrNotFound"]
                   ELSE [stage |-> "found", self |-> k, err |-> ""]
    /\ UNCHANGED fnIn
    /\ UNCHANGED <<checkVars, selfVars, runVars>>

\* SelfUpdate, lines 90-104: the container and the image are inspected and
\* selfUpdateContainer, which issues the first call that changes the engine,
\* is entered.
FindInspect ==
    /\ fnOut # <<>>
    /\ fnOut.stage = "found"
    /\ \E configOK \in BOOLEAN, imageOK \in BOOLEAN :
          fnOut' = IF ~configOK THEN [fnOut EXCEPT !.stage = "returned", !.err = "ErrConfig"]
                   ELSE IF ~imageOK THEN [fnOut EXCEPT !.stage = "returned", !.err = "ErrImage"]
                   ELSE [fnOut EXCEPT !.stage = "update"]
    /\ UNCHANGED fnIn
    /\ UNCHANGED <<checkVars, selfVars, runVars>>

FindNext ==
    \/ FindSelf
    \/ FindInspect

FindSpec == FindInit /\ [][FindNext]_vars

\* C28: when a listed container carries the self label, the container
\* identified as self carries it; the image name decides only when no listed
\* container is labelled; and when nothing matches an error is returned and
\* selfUpdateContainer, where the engine is first changed, is not entered.
C28_LabelPreferred ==
    (fnOut # <<>> /\ fnOut.err # "ErrList") =>
        LET labelled == {k \in 1..Len(fnIn) : HasSelfLabel(fnIn[k].Labels)}
            byImage  == {k \in 1..Len(fnIn) :
                            /\ fnIn[k].Image # <<>>
                            /\ \E p \in 1..Len(fnIn[k].Image) :
                                  fnIn[k].Image[p] \in {"watchducker", "naomi233"}}
        IN  /\ labelled # {} => fnOut.self \in labelled
            /\ (labelled = {} /\ byImage # {}) => fnOut.self \in byImage
            /\ (labelled = {} /\ byImage = {}) =>
                  fnOut.self = 0 /\ fnOut.err = "ErrNotFound" /\ fnOut.stage = "returned"


\* Positions in the engine call log of the calls named ops.
CallsAt(ops) == {i \in 1..Len(calls) : calls[i].op \in ops}

\* The container takes part in the network rearrangement of createNewContainer.
Rearranges == ~cfg.hostMode /\ simpleNet # {}

\* C29 (as stated): the new container is started before its endpoints are
\* rearranged, so every network disconnect or connect call comes after a
\* successful start call.
C29_StartBeforeNetworks ==
    \A i \in CallsAt({"disconnect", "connect"}) :
        \E j \in CallsAt({"start"}) : j < i /\ calls[j].ok

\* C29 (amended): in self-replacement the engine calls occur in the order
\* create, disconnect the one network of creation, connect every originally
\* required network, start.  Every disconnect, connect and start call comes
\* after the successful create; every connect comes after the successful
\* disconnect; no network call comes after the start call; and the start call
\* of a container whose networks are rearranged comes after a successful
\* connect of each required network.
C29_NetworksBeforeStart ==
    /\ \A i \in CallsAt({"disconnect", "connect", "start"}) :
          \E j \in CallsAt({"create"}) : j < i /\ calls[j].ok
    /\ \A i \in CallsAt({"connect"}) :
          \E j \in CallsAt({"disconnect"}) :
              j < i /\ calls[j].ok /\ calls[j].net \in simpleNet
    /\ \A i \in CallsAt({"start"}) :
          /\ \A j \in CallsAt({"disconnect", "connect"}) : j < i
          /\ Rearranges =>
                \A k \in cfg.networks :
                    \E j \in CallsAt({"connect"}) :
                        j < i /\ calls[j].ok /\ calls[j].net = k

\* A replacement on two networks ran to its end: the new container was
\* started after both networks had been connected.
C29_Witness ==
    /\ spc = "returned"
    /\ selfErr = ""
    /\ ~cfg.hostMode
    /\ Cardinality(cfg.networks) = 2
    /\ StartSucceeded
    /\ \A k \in cfg.networks :
          \E i \in CallsAt({"connect"}), j \in CallsAt({"start"}) :
              i < j /\ calls[i].ok /\ calls[i].net = k

\* C30: the new container is created attached to at most one of the original
\* network endpoints; without host networking a replacement that succeeds
\* leaves the new container connected to exactly the originally required
\* networks, each connected by one call; with host networking no network
\* disconnect or connect call is issued.
C30_NetworksRestored ==
    /\ CallsAt({"create"}) # {} =>
          simpleNet \subseteq cfg.networks /\ Cardinality(simpleNet) <= 1
    /\ spc = "returned" /\ selfErr = "" /\ ~cfg.hostMode =>
          /\ engine[newContainerID].exists
          /\ engine[newContainerID].nets = cfg.networks
          /\ \A k \in cfg.networks :
                Cardinality({i \in CallsAt({"connect"}) :
                                calls[i].net = k /\ calls[i].ok}) = 1
    /\ cfg.hostMode => CallsAt({"disconnect", "connect"}) = {}

\* A replacement on two networks succeeded: the new container was created on
\* one of them and ends connected to both.
C30_Witness ==
    /\ spc = "returned"
    /\ selfErr = ""
    /\ ~cfg.hostMode
    /\ Cardinality(cfg.networks) = 2
    /\ Cardinality(simpleNet) = 1
    /\ engine[newContainerID].exists
    /\ engine[newContainerID].nets = cfg.networks


(***************************************************************************)
(* Properties of the collection of the results of a batch check.           *)
(***************************************************************************)
\* C31: the progress observer is invoked exactly once for every
\* ImageCheckResult of the aggregate result, error-only entries of
\* unresolvable images included, and in the order of the result's image
\* list: the sequence of observed results is the image list itself.
C31_ObserverFollowsResult ==
    /\ callbacks = result.Images
    /\ pc = "done" /\ Len(containers) > 0 =>
          Len(callbacks) = Len(skipped) + Len(tasks)

\* A batch check returned whose observer saw an unresolvable image first and
\* then two checked images, one of which had failed.
C31_Witness ==
    /\ pc = "done"
    /\ Len(skipped) = 1
    /\ Len(callbacks) = 3
    /\ callbacks[1] = skipped[1]
    /\ \E i \in 2..3 : callbacks[i].Error # ""
    /\ \E i \in 2..3 : callbacks[i].Error = ""


\* Position of the result of goroutine n in the result's image list (0 when
\* it has not been collected).
ArrivedAt(n) ==
    LET at == {i \in Len(skipped) + 1..Len(result.Images) :
                  result.Images[i] = tasks[n].out.info}
    IN  IF at = {} THEN 0 ELSE CHOOSE i \in at : TRUE

\* C32: the summary counts are computed only after every goroutine has
\* finished and its result has been collected (until then they are zero),
\* and they are a function of the per-image outcomes alone: counted over the
\* goroutines in the order they were started, not over the order of arrival.
C32_SummaryAfterAllAndOrderFree ==
    LET s == result.Summary
        outcomes == [n \in 1..Len(tasks) |-> tasks[n].out.info]
        counted == CountSummary(skipped \o outcomes)
    IN  /\ pc # "done" => s.Updated = 0 /\ s.UpToDate = 0 /\ s.Failed = 0
        /\ pc = "done" /\ Len(containers) > 0 =>
              /\ AllTasksDone(tasks)
              /\ closed
              /\ resultsChan = <<>>
              /\ \A n \in 1..Len(tasks) : ArrivedAt(n) # 0
              /\ s.Updated = counted.Updated
              /\ s.UpToDate = counted.UpToDate
              /\ s.Failed = counted.Failed

\* A batch check returned whose two goroutines delivered in the reverse of
\* their starting order, the one that arrived first having failed and the
\* other having found an update.
C32_Witness ==
    /\ pc = "done"
    /\ Len(tasks) = 2
    /\ ArrivedAt(2) # 0
    /\ ArrivedAt(2) < ArrivedAt(1)
    /\ tasks[2].out.info.Error # ""
    /\ tasks[1].out.info.IsUpdated
    /\ result.Summary.Updated = 1
    /\ result.Summary.Failed = 1 + Len(skipped)


\* A step of one of the detection goroutines.
TaskStep == \E n \in 1..Len(tasks) : tasks'[n] # tasks[n]

\* The result of goroutine n is in the channel or in the image list.
Delivered(n) ==
    \/ SeqContains(resultsChan, tasks[n].out.info)
    \/ ArrivedAt(n) # 0

\* C33: the image list, the summary and the observer are touched only by the
\* goroutine running checkImages: a step of a detection goroutine changes
\* nothing but its own state, the channels and the engine's counters, so no
\* two goroutines write the aggregate result or invoke the observer at the
\* same time; and no result handed to the channel is lost: it stays in the
\* channel until it is collected, once, into the image list, where every
\* result is found when the batch check has returned.
C33_SingleCollector ==
    /\ [][TaskStep => /\ result' = result
                      /\ callbacks' = callbacks
                      /\ errors' = errors
                      /\ retErr' = retErr]_vars
    /\ [](\A n \in 1..Len(tasks) :
            /\ tasks[n].pc = "done" => Delivered(n)
            /\ Cardinality({i \in 1..Len(result.Images) :
                               result.Images[i] = tasks[n].out.info}) <= 1
            /\ pc = "done" => ArrivedAt(n) # 0)

\* Two goroutines have handed over their results and are finished while the
\* collector has not received either of them yet.
C33_Witness ==
    /\ pc = "collect"
    /\ Len(tasks) = 2
    /\ tasks[1].pc = "done" /\ tasks[2].pc = "done"
    /\ Len(resultsChan) = 2
    /\ Len(result.Images) = Len(skipped)


(***************************************************************************)
(* Further properties of the self-replacement protocol.                    *)
(***************************************************************************)
\* C34: a failure of a rollback step is never escalated.  When
\* selfUpdateContainer has returned after createNewContainer failed, its last
\* call was the rename back and it returns the creation error whether or not
\* that rename succeeded; when it has returned after the start failed, its
\* last two calls were the rename back and then the removal of the new
\* container, attempted whatever the rename answered, and it returns the
\* start error whatever both answered.
C34_RollbackFailureNotEscalated ==
    /\ spc = "returned" /\ (CreateFailed \/ ReconnectFailed) =>
          /\ selfErr = "ErrCreate"
          /\ LastCall.op = "rename" /\ LastCall.id = "old"
          /\ LastCall.name = cfg.name
    /\ spc = "returned" /\ StartFailed =>
          /\ selfErr = "ErrStart"
          /\ Len(calls) >= 2
          /\ calls[Len(calls) - 1].op = "rename"
          /\ calls[Len(calls) - 1].id = "old"
          /\ calls[Len(calls) - 1].name = cfg.name
          /\ LastCall.op = "remove" /\ LastCall.id = newContainerID

\* The start failed, the rename back failed, the removal of the new container
\* was attempted all the same and failed as well: the start error is returned.
C34_Witness ==
    /\ spc = "returned"
    /\ StartFailed
    /\ calls[Len(calls) - 1].op = "rename" /\ ~calls[Len(calls) - 1].ok
    /\ LastCall.op = "remove" /\ ~LastCall.ok
    /\ selfErr = "ErrStart"
    /\ engine["new"].exists


(***************************************************************************)
(* Further properties of the run.                                          *)
(***************************************************************************)
\* The last call issued on listed container c was op and it failed.
FailedAt(c, op) ==
    LET s == CallsOf(c) IN
    Len(s) > 0 /\ s[Len(s)].op = op /\ ~s[Len(s)].ok

\* Some call op on listed container c failed.
OpFailed(c, op) == \E k \in 1..Len(CallsOf(c)) : CallsOf(c)[k].op = op /\ ~CallsOf(c)[k].ok

\* C35: the ordinary replacement has no rollback.  From a failed create on,
\* the original container is removed and nothing bears its name; from a
\* failed start on, the original is removed and the replacement is created
\* but not running; in both cases the failed call stays the last call issued
\* on the container: the old one is neither restored nor restarted.
C35_NoRollback ==
    \A c \in 1..Len(docker) :
        /\ OpFailed(c, "create") =>
              /\ FailedAt(c, "create")
              /\ docker[c].old = "removed"
              /\ docker[c].new = "none"
        /\ OpFailed(c, "start") =>
              /\ FailedAt(c, "start")
              /\ docker[c].old = "removed"
              /\ docker[c].new = "created"

\* The run has ended with one container lost to a failed create and another
\* left created but not started.
C35_Witness ==
    /\ rpc = "exit"
    /\ \E c, d \in 1..Len(docker) :
          /\ FailedAt(c, "create")
          /\ docker[c].old = "removed" /\ docker[c].new = "none"
          /\ FailedAt(d, "start")
          /\ docker[d].old = "removed" /\ docker[d].new = "created"


\* The batch result holds an ImageCheckResult named ref with updated = true
\* and no error.
ConfirmedUpdated(ref) ==
    \E j \in 1..Len(batch.Images) :
        /\ batch.Images[j].Name = ref
        /\ batch.Images[j].IsUpdated
        /\ batch.Images[j].Error = ""

\* The operator has built its map and selected the containers to update.
Selected == imageUpdates # {}

\* Listed container c is among containersToUpdate.
Submitted(c) == \E k \in 1..Len(containersToUpdate) : containersToUpdate[k].ID = c

\* C36: once the operator has selected the containers to update, every
\* container whose resolved image reference has an ImageCheckResult with
\* updated = true and no error is among them, also a container whose
\* recorded reference is a digest or the anonymous placeholder.
C36_EveryUpdatedSubmitted ==
    Selected =>
        \A c \in 1..Len(docker) :
            resolvedOf[c] # "" /\ ConfirmedUpdated(resolvedOf[c]) => Submitted(c)

\* C37: every engine call of the operator is issued on a container whose
\* recorded image reference is the name of an ImageCheckResult with updated =
\* true and no error; every other container is as the engine listed it; and
\* with Summary.Updated = 0 the operator issues no call at all.
C37_OthersUntouched ==
    /\ \A c \in 1..Len(docker) :
          ~ConfirmedUpdated(docker[c].image) =>
              /\ CallsOf(c) = <<>>
              /\ docker[c] = RunContainer(docker[c].image)
              /\ ~Submitted(c)
    /\ batch.Summary.Updated = 0 =>
          /\ SelectSeq(opCalls, LAMBDA x : x.op # "prune") = <<>>
          /\ containersToUpdate = <<>>

\* The run has ended: one container was replaced, the other, whose image
\* check failed or found nothing new, was left as it was.
C37_Witness ==
    /\ rpc = "exit"
    /\ \E c, d \in 1..Len(docker) :
          /\ Len(CallsOf(c)) = Len(OpOrder)
          /\ docker[c].new = "running"
          /\ resolvedOf[d] # ""
          /\ ~ConfirmedUpdated(docker[d].image)
          /\ \E j \in 1..Len(batch.Images) : batch.Images[j].Name = resolvedOf[d]
          /\ CallsOf(d) = <<>>
          /\ docker[d].old = "running"


\* C38: a batch check terminates when every engine call returns.  No
\* goroutine is ever blocked on a send: whenever one is about to send its
\* error or its result the channel has room; the channels are closed only
\* once every goroutine has finished; and checkImages eventually returns,
\* also when goroutines have failed.
C38_BatchCheckTerminates ==
    /\ [](\A n \in 1..Len(tasks) :
            /\ tasks[n].pc = "senderr" => Len(errChan) < chanCap
            /\ tasks[n].pc = "sendres" => Len(resultsChan) < chanCap)
    /\ [](closed => \A n \in 1..Len(tasks) : tasks[n].pc = "done")
    /\ <>(pc = "done")

\* checkImages has returned after both of its goroutines had failed and had
\* filled the error channel to its capacity.
C38_Witness ==
    /\ pc = "done"
    /\ Len(tasks) = 2
    /\ chanCap = 2
    /\ Len(errors) = 2
    /\ \A n \in 1..2 : tasks[n].out.err # "" /\ tasks[n].pc = "done"


\* The containers of the engine that bear the original name.
BearOriginalName == {id \in ContainerIDs : engine[id].exists /\ engine[id].name = cfg.name}

\* C39: when selfUpdateContainer returns success, the new container exists,
\* bears the original name, was created from the image reference handed over
\* as the new image and was started successfully; the old container is
\* removed or carries the temporary name; and at no moment do two containers
\* bear the original name.
C39_SuccessMeansReplaced ==
    /\ Cardinality(BearOriginalName) <= 1
    /\ spc = "returned" /\ selfErr = "" =>
          /\ BearOriginalName = {"new"}
          /\ newContainerID = "new"
          /\ engine["new"].image = cfg.image
          /\ \E i \in CallsAt({"start"}) : calls[i].id = "new" /\ calls[i].ok
          /\ engine["new"].running
          /\ \/ ~engine["old"].exists
             \/ engine["old"].name = OldContainerNewName(cfg.name)

\* Success was returned although the removal of the old container failed:
\* the old container is still there under its temporary name, the new one
\* runs under the original name.
C39_Witness ==
    /\ spc = "returned"
    /\ selfErr = ""
    /\ engine["old"].exists
    /\ engine["old"].name = OldContainerNewName(cfg.name)
    /\ engine["new"].exists
    /\ engine["new"].name = cfg.name
    /\ engine["new"].running


(***************************************************************************)
(* Properties of successive image checks.                                  *)
(***************************************************************************)
\* No image was pushed between entries k and j of the history.
NoPushBetween(k, j) == \A m \in (k + 1)..j : fnOut[m].kind = "check"

\* C40: the update signal is one-shot.  A check that reports updated = true
\* has replaced the local image by the registry's, and every later check
\* before the next push reports updated = false, so that the operator's map
\* built from it does not hold the image and selects no container for it;
\* the check reads the image store alone, whatever happened to the
\* containers in between.
C40_UpdateSignalOneShot ==
    \A k \in 1..Len(fnOut) :
        fnOut[k].kind = "check" /\ fnOut[k].info.IsUpdated =>
            /\ fnOut[k].local # fnOut[k].registry
            /\ fnOut[k].info.RemoteHash = fnOut[k].registry
            /\ \A j \in (k + 1)..Len(fnOut) :
                  NoPushBetween(k, j) =>
                      /\ fnOut[j].local = fnOut[k].registry
                      /\ ~fnOut[j].info.IsUpdated
                      /\ ImageUpdates(<<fnOut[j].info>>) = {}

\* A check reported an update and the two checks after it, run without a
\* push in between and without error, reported none.
C40_Witness ==
    /\ Len(fnOut) = 3
    /\ \A k \in 1..3 : fnOut[k].kind = "check" /\ fnOut[k].info.Error = ""
    /\ fnOut[1].info.IsUpdated
    /\ ~fnOut[2].info.IsUpdated
    /\ ~fnOut[3].info.IsUpdated
    /\ ImageUpdates(<<fnOut[1].info>>) = {CheckedImage}

====
